---- MODULE Spec2Model ----
(***************************************************************************)
(* G-Type dictation daemon: the session state machine of app.rs, the       *)
(* hotkey hook of input.rs, the capture thread and audio callback of       *)
(* audio.rs and the transcription client of network.rs.                    *)
(*                                                                         *)
(* One AudioChunk (SAMPLES_PER_CHUNK samples) is represented by its        *)
(* number in the order of production; produced[n] is the session whose     *)
(* callback produced chunk n.  A text is a sequence of characters over a   *)
(* two-letter alphabet that contains the blank.                            *)
(***************************************************************************)
EXTENDS Integers, Sequences, FiniteSets, TLC

\* ---------------------------------------------------------------- bounds
MaxEdges == 3       \* Start/Stop edges sent on the signal channel in one run
MaxChunks == 2      \* chunks the audio callbacks produce in one run
MaxDeltas == 1      \* text fragments the server sends in one turn
MaxCalls == 3       \* invocations of one audio callback that are followed
MaxWait == 9        \* seconds the response loop of transcribe is followed

\* ------------------------------------------------------ program constants
INPUT_CAP == 32     \* mpsc::channel(32) of input signals
TARGET_RATE == 16000
CHUNK_MS == 100
SAMPLES_PER_CHUNK == (TARGET_RATE * CHUNK_MS) \div 1000

HotkeyTrigger == "Space"
Chars == {"a", " "}

VARIABLES
    \* input.rs: HookState and the signal channel
    hotkey, held_modifiers, trigger_held, hk_recording, elapsed,
    input_q, input_closed,
    \* app.rs: run / state_idle / state_recording
    state, pc, all_samples, text,
    \* per Recording entry: LivenessFlag, chunk channel, capture thread, callback
    flag, chan, th, cb, ds_lock,
    \* network.rs: position inside transcribe and its accumulated text
    tphase, transcription,
    \* history (observation only); ignored counts the edges the state machine
    \* has skipped since it last accepted a Start, startedBusy tells whether
    \* that Start was sent while the machine was Processing or Injecting
    nedges, ignored, startedBusy, produced, late, stopSeen, drained,
    startCalls, transcribeCalls, injectCalls, fail, tresult,
    \* audio.rs, one callback closure looked at on its own: the flag it
    \* loads, its Downsampler, its counter of served invocations, the chunks
    \* it has sent, and (history) the number of its invocations and the
    \* samples it was given while the flag was set
    running, ds, cb_count, tx_out, ncalls, fed_in,
    \* audio.rs, one call of a function looked at on its own: the function,
    \* its argument and what it returned
    fn, arg, ret,
    \* network.rs, the response loop of transcribe looked at on its own: the
    \* Duration `deadline`, the text accumulated, the position (in the loop or
    \* returned), and (history, in seconds) the time the current
    \* timeout(deadline, stream.next()) has waited and the time since the loop
    \* was entered
    deadline, rx_text, rx_state, poll_wait, total_wait,
    \* network.rs, one call of transcribe looked at on its own: its position,
    \* the messages it has sent on the sink, the chunk channel and whether its
    \* sender is dropped, the stop channel, the text accumulated, and
    \* (history) the deltas the server has sent, the number of chunks
    \* produced, whether the setup response was received, and the result
    n_pc, n_sent, n_audio, n_audio_closed, n_stop, n_text, n_in, n_produced,
    n_setup_ok, n_result,
    \* injector.rs, one call of inject_clipboard looked at on its own: its
    \* position, the text to inject, the system clipboard, the backup taken,
    \* and (history) the clipboard at the call, what the focused application
    \* was given to paste, and the result
    c_pc, c_text, clip, c_backup, c_original, c_pasted, c_result

feedVars == <<running, ds, cb_count, tx_out, ncalls, fed_in>>
pureVars == <<fn, arg, ret>>
respVars == <<deadline, rx_text, rx_state, poll_wait, total_wait>>
netVars == <<n_pc, n_sent, n_audio, n_audio_closed, n_stop, n_text, n_in, n_produced,
             n_setup_ok, n_result>>
clipVars == <<c_pc, c_text, clip, c_backup, c_original, c_pasted, c_result>>
extraVars == <<netVars, clipVars>>
sideVars == <<pureVars, respVars, extraVars>>
mainVars == <<hotkey, held_modifiers, trigger_held, hk_recording, elapsed,
              input_q, input_closed, state, pc, all_samples, text,
              flag, chan, th, cb, ds_lock, tphase, transcription,
              nedges, ignored, startedBusy, produced, late, stopSeen, drained,
              startCalls, transcribeCalls, injectCalls, fail, tresult>>
hookVars == <<hotkey, held_modifiers, trigger_held, hk_recording, elapsed, nedges>>
inVars   == <<input_q, input_closed>>
ssmVars  == <<state, pc, all_samples, text, tphase, transcription>>
capVars  == <<flag, chan, th, cb, ds_lock, produced>>
histVars == <<ignored, startedBusy, late, stopSeen, drained, startCalls, transcribeCalls,
              injectCalls, fail, tresult>>
vars     == <<hookVars, inVars, ssmVars, capVars, histVars, feedVars, sideVars>>

Range(s) == {s[i] : i \in 1..Len(s)}

\* The session the state machine is in: the flag and channel constructed last.
cur == Len(flag)

\* The logical state of the cycle, as app.rs logs it: Processing and
\* Injecting are positions inside state_recording.
Phase ==
    CASE pc \in {"idle", "parked"}                 -> "Idle"
      [] pc = "exited"                             -> "Exited"
      [] pc \in {"rec_enter", "collect"}           -> "Recording"
      [] pc \in {"stop", "drain", "transcribe"}    -> "Processing"
      [] pc = "inject"                             -> "Injecting"

NoResult == [kind |-> "none", text |-> <<>>]

\* str::trim of the accumulated transcription
RECURSIVE TrimStart(_)
TrimStart(t) == IF t # <<>> /\ Head(t) = " " THEN TrimStart(Tail(t)) ELSE t
RECURSIVE TrimEnd(_)
TrimEnd(t) ==
    IF t # <<>> /\ t[Len(t)] = " " THEN TrimEnd(SubSeq(t, 1, Len(t) - 1)) ELSE t
Trim(t) == TrimEnd(TrimStart(t))

\* -------------------------------------------------- audio.rs: Downsampler

\* Integer division of Rust: the quotient is truncated toward zero.
TruncDiv(a, b) == IF a >= 0 THEN a \div b ELSE -((-a) \div b)

\* Downsampler::new.  resample_pos is kept as the numerator of a fraction
\* whose denominator is TARGET_RATE.
Downsampler_new(source_rate, source_channels) ==
    [source_rate |-> source_rate, source_channels |-> source_channels,
     out_buf |-> <<>>, resample_pos |-> 0]

\* Sum of the channel values of frame f (counted from 0).
RECURSIVE ChanSum(_, _, _, _)
ChanSum(samples, ch, f, c) ==
    IF c = ch THEN 0 ELSE samples[f * ch + c + 1] + ChanSum(samples, ch, f, c + 1)

\* Number of iterations of `while self.resample_pos < frames as f64`.
ResampleSteps(pos, rate, frames) ==
    IF pos >= frames * TARGET_RATE THEN 0
    ELSE (frames * TARGET_RATE - pos + rate - 1) \div rate

\* The output sample computed at cursor p: linear interpolation between the
\* mono mixes of frame idx and frame idx + 1, cast to i16.
ResampleAt(samples, ch, frames, p) ==
    LET idx  == p \div TARGET_RATE
        frac == p % TARGET_RATE
        s0   == ChanSum(samples, ch, idx, 0)
    IN  IF idx + 1 < frames
        THEN TruncDiv(s0 * (TARGET_RATE - frac)
                        + ChanSum(samples, ch, idx + 1, 0) * frac,
                      ch * TARGET_RATE)
        ELSE TruncDiv(s0, ch)

\* Variant: the first channel is taken instead of the average.
MonoMix_FirstChannel(samples, ch, frames) ==
    [f \in 1..frames |-> samples[(f - 1) * ch + 1]]

\* feed, source_rate == TARGET_RATE: one mono value per frame, the channel
\* sum divided by the channel count in i32.
MonoMix(samples, ch, frames) ==
    [f \in 1..frames |-> TruncDiv(ChanSum(samples, ch, f - 1, 0), ch)]

\* feed, otherwise: the samples pushed by the resampling loop.
Resampled(d, samples, frames) ==
    [j \in 1..ResampleSteps(d.resample_pos, d.source_rate, frames) |->
        ResampleAt(samples, d.source_channels, frames,
                   d.resample_pos + (j - 1) * d.source_rate)]

\* Variant: the cursor starts again at 0 with every callback.
AdvancePos_Reset(pos, rate, frames) == 0

\* Variant: the frames consumed are not taken off the cursor.
AdvancePos_Unreduced(pos, rate, frames) ==
    pos + ResampleSteps(pos, rate, frames) * rate

\* resample_pos after the loop and `self.resample_pos -= frames as f64`.
AdvancePos(pos, rate, frames) ==
    pos + ResampleSteps(pos, rate, frames) * rate - frames * TARGET_RATE

\* Variant: what is left after the complete chunks is thrown away.
ExtractChunks_DropRest(buf) ==
    LET n == Len(buf) \div SAMPLES_PER_CHUNK IN
    [chunks |-> [i \in 1..n |->
                    SubSeq(buf, (i - 1) * SAMPLES_PER_CHUNK + 1, i * SAMPLES_PER_CHUNK)],
     rest   |-> <<>>]

\* Variant: at most one chunk is taken per call.
ExtractChunks_One(buf) ==
    LET n == IF Len(buf) >= SAMPLES_PER_CHUNK THEN 1 ELSE 0 IN
    [chunks |-> [i \in 1..n |->
                    SubSeq(buf, (i - 1) * SAMPLES_PER_CHUNK + 1, i * SAMPLES_PER_CHUNK)],
     rest   |-> SubSeq(buf, n * SAMPLES_PER_CHUNK + 1, Len(buf))]

\* `while self.out_buf.len() >= SAMPLES_PER_CHUNK`: drain complete chunks.
ExtractChunks(buf) ==
    LET n == Len(buf) \div SAMPLES_PER_CHUNK IN
    [chunks |-> [i \in 1..n |->
                    SubSeq(buf, (i - 1) * SAMPLES_PER_CHUNK + 1, i * SAMPLES_PER_CHUNK)],
     rest   |-> SubSeq(buf, n * SAMPLES_PER_CHUNK + 1, Len(buf))]

\* Downsampler::feed: the Downsampler after the call and the chunks returned.
feed(d, samples) ==
    LET ch == d.source_channels IN
    IF ch = 0 \/ samples = <<>> THEN [ds |-> d, chunks |-> <<>>]
    ELSE
    LET frames == Len(samples) \div ch
        pushed == IF d.source_rate = TARGET_RATE
                  THEN MonoMix(samples, ch, frames)
                  ELSE Resampled(d, samples, frames)
        pos    == IF d.source_rate = TARGET_RATE
                  THEN d.resample_pos
                  ELSE AdvancePos(d.resample_pos, d.source_rate, frames)
        ex     == ExtractChunks(d.out_buf \o pushed)
    IN  [ds |-> [d EXCEPT !.out_buf = ex.rest, !.resample_pos = pos],
         chunks |-> ex.chunks]

\* Stream configurations and callback buffers the closure is run with.
SourceRates == {TARGET_RATE, 44100, 48000}
SourceChannels == {1, 2}
FrameCounts == {1, 800, 2400}
CallbackData(ch) == {[i \in 1..(n * ch) |-> ((i * 3) % 7) - 3] : n \in FrameCounts}

InitHotkey == hotkey = [modifiers |-> {}, trigger |-> HotkeyTrigger]

InitState ==
    /\ held_modifiers = {} /\ trigger_held = FALSE /\ hk_recording = FALSE
    /\ elapsed = TRUE /\ nedges = 0
    /\ input_q = <<>> /\ input_closed = FALSE
    /\ state = "Idle" /\ pc = "idle" /\ all_samples = <<>>
    /\ text = <<>> /\ transcription = <<>> /\ tphase = "none"
    /\ flag = <<>> /\ chan = <<>> /\ th = <<>> /\ cb = <<>> /\ ds_lock = <<>>
    /\ produced = <<>>
    /\ ignored = 0 /\ startedBusy = FALSE /\ late = {} /\ stopSeen = FALSE /\ drained = FALSE
    /\ startCalls = 0 /\ transcribeCalls = 0 /\ injectCalls = <<>>
    /\ fail = {} /\ tresult = NoResult

InitMain == InitHotkey /\ InitState

\* No function is being called on its own, no response loop is looked at.
InitPure == fn = "none" /\ arg = [none |-> 0] /\ ret = [none |-> 0]
InitResp ==
    /\ deadline = 0 /\ rx_text = <<>> /\ rx_state = "none"
    /\ poll_wait = 0 /\ total_wait = 0

\* No call of transcribe or of inject_clipboard is looked at on its own.
NoClip == [kind |-> "none", text |-> <<>>]
InitNet ==
    /\ n_pc = "none" /\ n_sent = <<>> /\ n_audio = <<>> /\ n_audio_closed = FALSE
    /\ n_stop = "none" /\ n_text = <<>> /\ n_in = <<>> /\ n_produced = 0
    /\ n_setup_ok = FALSE /\ n_result = "none"
InitClip ==
    /\ c_pc = "none" /\ c_text = <<>> /\ clip = NoClip /\ c_backup = NoClip
    /\ c_original = NoClip /\ c_pasted = <<>> /\ c_result = "none"
InitExtra == InitNet /\ InitClip

Init ==
    /\ InitMain
    /\ running = FALSE /\ ds = Downsampler_new(TARGET_RATE, 1)
    /\ cb_count = 0 /\ tx_out = <<>> /\ ncalls = 0 /\ fed_in = <<>>
    /\ InitPure /\ InitResp /\ InitExtra

\* ================================================================ input.rs

key_to_modifier(k) ==
    CASE k \in {"ControlLeft", "ControlRight"} -> {"Ctrl"}
      [] k \in {"ShiftLeft", "ShiftRight"}     -> {"Shift"}
      [] OTHER                                  -> {}

\* The keys of the configured combination: the ones the user works.
Keys == {hotkey.trigger} \cup {k \in {"ControlLeft"} : key_to_modifier(k) \subseteq hotkey.modifiers /\ key_to_modifier(k) # {}}

\* tx.blocking_send(sig): waits for room; the receiver lives as long as run.
blocking_send(sig) ==
    /\ Len(input_q) < INPUT_CAP
    /\ nedges < MaxEdges
    /\ nedges' = nedges + 1
    /\ input_q' = Append(input_q, [sig |-> sig, busy |-> Phase \in {"Processing", "Injecting"}])

\* Variant: a press with the combination held starts a recording even when
\* one is already in progress.
check_combo_IgnoreRecording(hm, tr) ==
    IF hotkey.modifiers \subseteq hm /\ tr
    THEN IF ~elapsed
         THEN UNCHANGED <<hk_recording, elapsed, input_q, nedges>>
         ELSE /\ elapsed' = FALSE
              /\ hk_recording' = TRUE
              /\ blocking_send("Start")
    ELSE UNCHANGED <<hk_recording, elapsed, input_q, nedges>>

check_combo(hm, tr) ==
    IF hotkey.modifiers \subseteq hm /\ tr /\ ~hk_recording
    THEN IF ~elapsed
         THEN UNCHANGED <<hk_recording, elapsed, input_q, nedges>>
         ELSE /\ elapsed' = FALSE
              /\ hk_recording' = TRUE
              /\ blocking_send("Start")
    ELSE UNCHANGED <<hk_recording, elapsed, input_q, nedges>>

\* Variant: only the release of the trigger key ends the recording.
check_release_TriggerOnly(hm, tr) ==
    IF hk_recording /\ ~tr
    THEN /\ hk_recording' = FALSE
         /\ blocking_send("Stop")
         /\ UNCHANGED elapsed
    ELSE UNCHANGED <<hk_recording, elapsed, input_q, nedges>>

check_release(hm, tr) ==
    IF hk_recording /\ (~tr \/ ~(hotkey.modifiers \subseteq hm))
    THEN /\ hk_recording' = FALSE
         /\ blocking_send("Stop")
         /\ UNCHANGED elapsed
    ELSE UNCHANGED <<hk_recording, elapsed, input_q, nedges>>

KeyPress(k) ==
    /\ ~input_closed
    /\ held_modifiers' = held_modifiers \cup key_to_modifier(k)
    /\ trigger_held' = (trigger_held \/ k = hotkey.trigger)
    /\ check_combo(held_modifiers', trigger_held')
    /\ UNCHANGED <<sideVars, feedVars, hotkey, input_closed, ssmVars, capVars, histVars>>

KeyRelease(k) ==
    /\ ~input_closed
    /\ held_modifiers' = held_modifiers \ key_to_modifier(k)
    /\ trigger_held' = (trigger_held /\ k # hotkey.trigger)
    /\ check_release(held_modifiers', trigger_held')
    /\ UNCHANGED <<sideVars, feedVars, hotkey, input_closed, ssmVars, capVars, histVars>>

\* DEBOUNCE_MS have passed since last_trigger.
DebounceElapsed ==
    /\ ~elapsed
    /\ elapsed' = TRUE
    /\ UNCHANGED <<sideVars, feedVars, hotkey, held_modifiers, trigger_held, hk_recording, nedges,
                   inVars, ssmVars, capVars, histVars>>

\* rdev::listen returns: the listener thread ends and drops the sender.
ListenerCrash ==
    /\ ~input_closed
    /\ input_closed' = TRUE
    /\ UNCHANGED <<sideVars, feedVars, hookVars, input_q, ssmVars, capVars, histVars>>

\* The signal channel as the state machine sees it: whoever holds the sender
\* may send either edge at any time.
SourceSend(sig) ==
    /\ ~input_closed
    /\ blocking_send(sig)
    /\ UNCHANGED <<sideVars, feedVars, hotkey, held_modifiers, trigger_held, hk_recording, elapsed,
                   input_closed, ssmVars, capVars, histVars>>

\* ================================================================ audio.rs

CaptureErrors == {"NoInputDevice", "NoUsableInputConfig"}
ThreadErrors  == {"UnsupportedFormat", "StreamConstructionFailed", "StreamStartFailed"}

\* The receiver audio_rx is a local of state_recording: it lives until that
\* function returns.
RxAlive(s) == s = cur /\ pc \in {"collect", "stop", "drain", "transcribe", "inject"}

\* Every sender of session s is dropped once its capture thread has ended.
Closed(s) == th[s] \in ThreadErrors \cup {"exited"}

\* The chunks session s has produced, in the order of their production.
ChunksOf(s) == SelectSeq([n \in 1..Len(produced) |-> n], LAMBDA n : produced[n] = s)

\* Chunks that callbacks in flight are still to send.
RECURSIVE SumSeq(_)
SumSeq(q) == IF q = <<>> THEN 0 ELSE Head(q) + SumSeq(Tail(q))
Pending == SumSeq(cb)

\* start_capture: device and configuration are picked synchronously, then
\* the capture thread is spawned and Ok(()) returned.
start_capture(o) == IF o = "ok" THEN "spawned" ELSE "none"

\* What start_capture returned to state_recording for session s.
StartCaptureResult(s) == IF th[s] = "none" THEN "Err" ELSE "Ok"

\* Body of the spawned thread up to the keep-alive loop: build the input
\* stream and play it; on any failure the thread returns.
ThreadStart(s, o) ==
    /\ th[s] = "spawned"
    /\ th' = [th EXCEPT ![s] = IF o = "ok" THEN "running" ELSE o]
    /\ UNCHANGED <<sideVars, feedVars, hookVars, inVars, ssmVars, flag, chan, cb, ds_lock, produced, histVars>>

\* The audio callback reads the flag; when it is set it locks the
\* Downsampler and feed returns n complete chunks, which the callback then
\* sends one by one.  The guard of the lock lives until the end of the
\* if-let block that contains the sending loop.
CallbackEnter(s) ==
    /\ th[s] = "running" /\ cb[s] = 0
    /\ IF ~flag[s]
       THEN UNCHANGED <<cb, ds_lock>>
       ELSE \E n \in 0..(MaxChunks - Len(produced) - Pending) :
                /\ cb' = [cb EXCEPT ![s] = n]
                /\ ds_lock' = [ds_lock EXCEPT ![s] = n > 0]
    /\ UNCHANGED <<sideVars, feedVars, hookVars, inVars, ssmVars, flag, chan, th, produced, histVars>>

\* Variant: every session sends on one shared channel, the one the state
\* machine is currently receiving from.
CallbackSend_Shared(s) ==
    /\ cb[s] > 0
    /\ LET c == Len(produced) + 1 IN
       /\ produced' = Append(produced, s)
       /\ IF RxAlive(cur)
          THEN /\ chan' = [chan EXCEPT ![cur] = Append(@, c)]
               /\ cb' = [cb EXCEPT ![s] = @ - 1]
          ELSE /\ cb' = [cb EXCEPT ![s] = 0]
               /\ UNCHANGED chan
       /\ ds_lock' = [ds_lock EXCEPT ![s] = cb'[s] > 0]
       /\ late' = IF s = cur /\ pc # "collect" THEN late \cup {c} ELSE late
    /\ UNCHANGED <<sideVars, feedVars, hookVars, inVars, ssmVars, flag, th, ignored, startedBusy, stopSeen, drained,
                   startCalls, transcribeCalls, injectCalls, fail, tresult>>

\* Variant: the send waits for a receiver.
CallbackSend_Blocking(s) ==
    /\ cb[s] > 0
    /\ RxAlive(s)
    /\ LET c == Len(produced) + 1 IN
       /\ produced' = Append(produced, s)
       /\ chan' = [chan EXCEPT ![s] = Append(@, c)]
       /\ cb' = [cb EXCEPT ![s] = @ - 1]
       /\ ds_lock' = [ds_lock EXCEPT ![s] = cb'[s] > 0]
       /\ late' = IF s = cur /\ pc # "collect" THEN late \cup {c} ELSE late
    /\ UNCHANGED <<sideVars, feedVars, hookVars, inVars, ssmVars, flag, th, ignored, startedBusy, stopSeen, drained,
                   startCalls, transcribeCalls, injectCalls, fail, tresult>>

\* tx.send(chunk) inside the callback: never blocks; fails only when the
\* receiver is gone, and then the callback returns.
CallbackSend(s) ==
    /\ cb[s] > 0
    /\ LET c == Len(produced) + 1 IN
       /\ produced' = Append(produced, s)
       /\ IF RxAlive(s)
          THEN /\ chan' = [chan EXCEPT ![s] = Append(@, c)]
               /\ cb' = [cb EXCEPT ![s] = @ - 1]
          ELSE /\ cb' = [cb EXCEPT ![s] = 0]
               /\ UNCHANGED chan
       /\ ds_lock' = [ds_lock EXCEPT ![s] = cb'[s] > 0]
       /\ late' = IF s = cur /\ pc # "collect" THEN late \cup {c} ELSE late
    /\ UNCHANGED <<sideVars, feedVars, hookVars, inVars, ssmVars, flag, th, ignored, startedBusy, stopSeen, drained,
                   startCalls, transcribeCalls, injectCalls, fail, tresult>>

\* Variant: the thread drops the stream without looking at the flag.
SupervisorExit_Early(s) ==
    /\ th[s] = "running" /\ cb[s] = 0
    /\ th' = [th EXCEPT ![s] = "exited"]
    /\ UNCHANGED <<sideVars, feedVars, hookVars, inVars, ssmVars, flag, chan, cb, ds_lock, produced, histVars>>

\* Keep-alive loop of the capture thread: once it reads the flag as false
\* it drops the stream (which waits for a running callback) and returns.
SupervisorExit(s) ==
    /\ th[s] = "running" /\ ~flag[s] /\ cb[s] = 0
    /\ th' = [th EXCEPT ![s] = "exited"]
    /\ UNCHANGED <<sideVars, feedVars, hookVars, inVars, ssmVars, flag, chan, cb, ds_lock, produced, histVars>>

\* ================================================================== app.rs

\* return State::Idle from state_recording: its locals (the receiver with
\* the chunks still queued, the buffer, the text) are dropped.
GoIdle ==
    /\ state' = "Idle" /\ pc' = "idle"
    /\ all_samples' = <<>> /\ text' = <<>>
    /\ tphase' = "none" /\ transcription' = <<>>

DropReceiver == chan' = [chan EXCEPT ![cur] = <<>>]

\* Variant: a Start that was sent while the machine was busy is discarded.
IdleRecvStart_DropBusy ==
    /\ pc = "idle" /\ input_q # <<>> /\ Head(input_q).sig = "Start"
    /\ input_q' = Tail(input_q)
    /\ IF Head(input_q).busy
       THEN UNCHANGED <<state, pc, histVars>>
       ELSE /\ state' = "Recording" /\ pc' = "rec_enter"
            /\ ignored' = 0 /\ startedBusy' = FALSE
            /\ late' = {} /\ stopSeen' = FALSE /\ drained' = FALSE
            /\ startCalls' = 0 /\ transcribeCalls' = 0 /\ injectCalls' = <<>>
            /\ fail' = {} /\ tresult' = NoResult
    /\ UNCHANGED <<sideVars, feedVars, hookVars, input_closed, all_samples, text, tphase,
                   transcription, capVars>>

\* state_idle, Some(Start): return State::Recording.
IdleRecvStart ==
    /\ pc = "idle" /\ input_q # <<>> /\ Head(input_q).sig = "Start"
    /\ input_q' = Tail(input_q)
    /\ state' = "Recording" /\ pc' = "rec_enter"
    /\ ignored' = 0 /\ startedBusy' = Head(input_q).busy
    /\ late' = {} /\ stopSeen' = FALSE /\ drained' = FALSE
    /\ startCalls' = 0 /\ transcribeCalls' = 0 /\ injectCalls' = <<>>
    /\ fail' = {} /\ tresult' = NoResult
    /\ UNCHANGED <<sideVars, feedVars, hookVars, input_closed, all_samples, text, tphase,
                   transcription, capVars>>

\* Variant: any edge received in Idle starts a recording.
IdleRecvStop_Toggle ==
    /\ pc = "idle" /\ input_q # <<>> /\ Head(input_q).sig = "Stop"
    /\ input_q' = Tail(input_q)
    /\ ignored' = ignored + 1
    /\ state' = "Recording" /\ pc' = "rec_enter"
    /\ UNCHANGED <<sideVars, feedVars, hookVars, input_closed, all_samples, text, tphase,
                   transcription, capVars, startedBusy, late, stopSeen,
                   drained, startCalls, transcribeCalls, injectCalls, fail, tresult>>

\* state_idle, Some(Stop): spurious stop while idle, continue.
IdleRecvStop ==
    /\ pc = "idle" /\ input_q # <<>> /\ Head(input_q).sig = "Stop"
    /\ input_q' = Tail(input_q)
    /\ ignored' = ignored + 1
    /\ UNCHANGED <<sideVars, feedVars, hookVars, input_closed, ssmVars, capVars, startedBusy, late, stopSeen,
                   drained, startCalls, transcribeCalls, injectCalls, fail, tresult>>

\* Variant: a closed signal channel ends run.
IdleRecvNone_Exit ==
    /\ pc = "idle" /\ input_q = <<>> /\ input_closed
    /\ pc' = "exited"
    /\ UNCHANGED <<sideVars, feedVars, hookVars, inVars, state, all_samples, text, tphase,
                   transcription, capVars, histVars>>

\* state_idle, None: std::future::pending().await never completes.
IdleRecvNone ==
    /\ pc = "idle" /\ input_q = <<>> /\ input_closed
    /\ pc' = "parked"
    /\ UNCHANGED <<sideVars, feedVars, hookVars, inVars, state, all_samples, text, tphase,
                   transcription, capVars, histVars>>

\* Variant: the result of start_capture is not looked at.
RecEnter_IgnoreError(o) ==
    /\ pc = "rec_enter"
    /\ flag' = Append(flag, TRUE)
    /\ chan' = Append(chan, <<>>)
    /\ th' = Append(th, start_capture(o))
    /\ cb' = Append(cb, 0)
    /\ ds_lock' = Append(ds_lock, FALSE)
    /\ startCalls' = startCalls + 1
    /\ pc' = "collect"
    /\ UNCHANGED <<sideVars, feedVars, hookVars, inVars, state, all_samples, text, tphase, transcription,
                   produced, ignored, startedBusy, late, stopSeen, drained,
                   transcribeCalls, injectCalls, fail, tresult>>

\* Entry of state_recording: fresh channel and flag, then start_capture.
RecEnter(o) ==
    /\ pc = "rec_enter"
    /\ flag' = Append(flag, TRUE)
    /\ chan' = Append(chan, <<>>)
    /\ th' = Append(th, start_capture(o))
    /\ cb' = Append(cb, 0)
    /\ ds_lock' = Append(ds_lock, FALSE)
    /\ startCalls' = startCalls + 1
    /\ IF o = "ok"
       THEN pc' = "collect" /\ UNCHANGED <<state, all_samples, text, tphase, transcription>>
       ELSE GoIdle
    /\ UNCHANGED <<sideVars, feedVars, hookVars, inVars, produced, ignored, startedBusy, late, stopSeen, drained,
                   transcribeCalls, injectCalls, fail, tresult>>

\* select!, input branch, Some(Stop): break.
RecRecvStop ==
    /\ pc = "collect" /\ input_q # <<>> /\ Head(input_q).sig = "Stop"
    /\ input_q' = Tail(input_q)
    /\ pc' = "stop"
    /\ stopSeen' = TRUE
    /\ UNCHANGED <<sideVars, feedVars, hookVars, input_closed, state, all_samples, text, tphase,
                   transcription, capVars, ignored, startedBusy, late, drained, startCalls,
                   transcribeCalls, injectCalls, fail, tresult>>

\* Variant: a Start while recording restarts the recording.
RecRecvStart_Restart ==
    /\ pc = "collect" /\ input_q # <<>> /\ Head(input_q).sig = "Start"
    /\ input_q' = Tail(input_q)
    /\ ignored' = ignored + 1
    /\ pc' = "rec_enter"
    /\ UNCHANGED <<sideVars, feedVars, hookVars, input_closed, state, all_samples, text, tphase,
                   transcription, capVars, startedBusy, late, stopSeen,
                   drained, startCalls, transcribeCalls, injectCalls, fail, tresult>>

\* select!, input branch, Some(Start): double press while recording, continue.
RecRecvStart ==
    /\ pc = "collect" /\ input_q # <<>> /\ Head(input_q).sig = "Start"
    /\ input_q' = Tail(input_q)
    /\ ignored' = ignored + 1
    /\ UNCHANGED <<sideVars, feedVars, hookVars, input_closed, ssmVars, capVars, startedBusy, late, stopSeen,
                   drained, startCalls, transcribeCalls, injectCalls, fail, tresult>>

\* Variant: the closure of the signal channel returns to Idle with the flag
\* left set.
RecRecvNone_KeepFlag ==
    /\ pc = "collect" /\ input_q = <<>> /\ input_closed
    /\ GoIdle /\ DropReceiver
    /\ UNCHANGED <<sideVars, feedVars, hookVars, inVars, flag, th, cb, ds_lock, produced, histVars>>

\* Variant: the closure of the signal channel ends the collection as a Stop
\* edge does.
RecRecvNone_AsStop ==
    /\ pc = "collect" /\ input_q = <<>> /\ input_closed
    /\ pc' = "stop"
    /\ UNCHANGED <<sideVars, feedVars, hookVars, inVars, state, all_samples, text, tphase,
                   transcription, capVars, histVars>>

\* select!, input branch, None: clear the flag and return State::Idle.
RecRecvNone ==
    /\ pc = "collect" /\ input_q = <<>> /\ input_closed
    /\ flag' = [flag EXCEPT ![cur] = FALSE]
    /\ GoIdle /\ DropReceiver
    /\ UNCHANGED <<sideVars, feedVars, hookVars, inVars, th, cb, ds_lock, produced, histVars>>

\* select!, audio branch, Some(pcm_data): extend all_samples.
RecRecvChunk ==
    /\ pc = "collect" /\ chan[cur] # <<>>
    /\ all_samples' = Append(all_samples, Head(chan[cur]))
    /\ chan' = [chan EXCEPT ![cur] = Tail(@)]
    /\ UNCHANGED <<sideVars, feedVars, hookVars, inVars, state, pc, text, tphase, transcription,
                   flag, th, cb, ds_lock, produced, histVars>>

\* Variant: the closure of the chunk channel ends run.
RecRecvChunkNone_Fatal ==
    /\ pc = "collect" /\ chan[cur] = <<>> /\ Closed(cur)
    /\ pc' = "exited"
    /\ UNCHANGED <<sideVars, feedVars, hookVars, inVars, state, all_samples, text, tphase,
                   transcription, capVars, histVars>>

\* select!, audio branch, None: audio channel closed, break.
RecRecvChunkNone ==
    /\ pc = "collect" /\ chan[cur] = <<>> /\ Closed(cur)
    /\ pc' = "stop"
    /\ UNCHANGED <<sideVars, feedVars, hookVars, inVars, state, all_samples, text, tphase,
                   transcription, capVars, histVars>>

\* Variant: the flag is left set when collection stops.
StoreFlag_Skip ==
    /\ pc = "stop"
    /\ pc' = "drain"
    /\ UNCHANGED <<sideVars, feedVars, hookVars, inVars, state, all_samples, text, tphase,
                   transcription, capVars, histVars>>

\* recording_flag.store(false).
StoreFlag ==
    /\ pc = "stop"
    /\ flag' = [flag EXCEPT ![cur] = FALSE]
    /\ pc' = "drain"
    /\ UNCHANGED <<sideVars, feedVars, hookVars, inVars, state, all_samples, text, tphase,
                   transcription, chan, th, cb, ds_lock, produced, histVars>>

\* Variant: the final drain empties the channel without keeping the chunks.
DrainChunk_Discard ==
    /\ pc = "drain" /\ chan[cur] # <<>>
    /\ chan' = [chan EXCEPT ![cur] = Tail(@)]
    /\ UNCHANGED <<sideVars, feedVars, hookVars, inVars, ssmVars, flag, th, cb, ds_lock, produced, histVars>>

\* while let Ok(chunk) = audio_rx.try_recv(): one iteration.
DrainChunk ==
    /\ pc = "drain" /\ chan[cur] # <<>>
    /\ all_samples' = Append(all_samples, Head(chan[cur]))
    /\ chan' = [chan EXCEPT ![cur] = Tail(@)]
    /\ UNCHANGED <<sideVars, feedVars, hookVars, inVars, state, pc, text, tphase, transcription,
                   flag, th, cb, ds_lock, produced, histVars>>

\* try_recv fails (empty or disconnected): the buffer is final.  An empty
\* buffer returns State::Idle, otherwise network::transcribe is called.
\* Variant: the buffer is handed to transcription without the emptiness test.
DrainDone_NoCheck ==
    /\ pc = "drain" /\ chan[cur] = <<>>
    /\ drained' = TRUE
    /\ pc' = "transcribe" /\ UNCHANGED <<state, all_samples, text>>
    /\ tphase' = "connect"
    /\ transcription' = <<>>
    /\ transcribeCalls' = transcribeCalls + 1
    /\ UNCHANGED <<sideVars, feedVars, hookVars, inVars, capVars, ignored, startedBusy, late,
                   stopSeen, startCalls, injectCalls, tresult, fail>>

DrainDone ==
    /\ pc = "drain" /\ chan[cur] = <<>>
    /\ drained' = TRUE
    /\ IF all_samples = <<>>
       THEN /\ GoIdle
            /\ fail' = fail \cup {"empty_recording"}
            /\ UNCHANGED transcribeCalls
       ELSE /\ pc' = "transcribe" /\ UNCHANGED <<state, all_samples, text>>
            /\ tphase' = "connect"
            /\ transcription' = <<>>
            /\ transcribeCalls' = transcribeCalls + 1
            /\ UNCHANGED fail
    /\ UNCHANGED <<sideVars, feedVars, hookVars, inVars, capVars, ignored, startedBusy, late,
                   stopSeen, startCalls, injectCalls, tresult>>

\* ============================================================== network.rs

\* Variant: the failure branch returns State::Recording.
TranscribeErr_Rerecord(kind) ==
    /\ state' = "Recording" /\ pc' = "rec_enter"
    /\ all_samples' = <<>> /\ text' = <<>>
    /\ tphase' = "none" /\ transcription' = <<>>
    /\ DropReceiver
    /\ tresult' = [kind |-> "err", text |-> <<>>]
    /\ fail' = fail \cup {kind}

\* transcribe returns Err(e): app.rs logs and returns State::Idle.
TranscribeErr(kind) ==
    /\ GoIdle /\ DropReceiver
    /\ tresult' = [kind |-> "err", text |-> <<>>]
    /\ fail' = fail \cup {kind}

\* Variant: the returned text is injected whether or not it is empty.
TranscribeOk_NoEmptyCheck(kinds) ==
    LET t == Trim(transcription) IN
    /\ tresult' = [kind |-> "ok", text |-> t]
    /\ pc' = "inject" /\ text' = t
    /\ tphase' = "none" /\ transcription' = <<>>
    /\ fail' = fail \cup kinds
    /\ UNCHANGED <<state, all_samples, chan>>

\* transcribe returns Ok(transcription.trim()): app.rs skips injection of an
\* empty text, otherwise goes on to inject it.
TranscribeOk(kinds) ==
    LET t == Trim(transcription) IN
    /\ tresult' = [kind |-> "ok", text |-> t]
    /\ IF t = <<>>
       THEN GoIdle /\ DropReceiver /\ fail' = fail \cup kinds \cup {"empty_text"}
       ELSE /\ pc' = "inject" /\ text' = t
            /\ tphase' = "none" /\ transcription' = <<>>
            /\ fail' = fail \cup kinds
            /\ UNCHANGED <<state, all_samples, chan>>

TranscribeContinue(ph) ==
    /\ tphase' = ph
    /\ UNCHANGED <<state, pc, all_samples, text, transcription, chan, fail, tresult>>

\* connect_async and the setup message.
TConnect(o) ==
    /\ pc = "transcribe" /\ tphase = "connect"
    /\ IF o = "ok" THEN TranscribeContinue("setup_wait") ELSE TranscribeErr("transport")
    /\ UNCHANGED <<sideVars, feedVars, hookVars, inVars, flag, th, cb, ds_lock, produced, ignored, startedBusy, late, stopSeen,
                   drained, startCalls, transcribeCalls, injectCalls>>

\* Wait (5 s) for the setup confirmation.
TSetupResponse(o) ==
    /\ pc = "transcribe" /\ tphase = "setup_wait"
    /\ CASE o = "msg"     -> TranscribeContinue("stream")
         [] o = "timeout" -> TranscribeErr("timeout")
         [] OTHER         -> TranscribeErr("transport")
    /\ UNCHANGED <<sideVars, feedVars, hookVars, inVars, flag, th, cb, ds_lock, produced, ignored, startedBusy, late, stopSeen,
                   drained, startCalls, transcribeCalls, injectCalls>>

\* Audio chunks, then turnComplete; a failed send returns an error.
TStream(o) ==
    /\ pc = "transcribe" /\ tphase = "stream"
    /\ IF o = "ok" THEN TranscribeContinue("await") ELSE TranscribeErr("transport")
    /\ UNCHANGED <<sideVars, feedVars, hookVars, inVars, flag, th, cb, ds_lock, produced, ignored, startedBusy, late, stopSeen,
                   drained, startCalls, transcribeCalls, injectCalls>>

ServerEvents ==
    {"TurnComplete", "Close", "RecvError", "StreamEnd", "Timeout", "Other"}

\* One iteration of the response loop: timeout(deadline, stream.next()).
TRecv(ev) ==
    /\ pc = "transcribe" /\ tphase = "await"
    /\ CASE ev \in Chars ->
              /\ Len(transcription) < MaxDeltas
              /\ transcription' = Append(transcription, ev)
              /\ UNCHANGED <<state, pc, all_samples, text, tphase, chan, fail, tresult>>
         [] ev = "TurnComplete" -> TranscribeOk({})
         [] ev = "Timeout"      -> TranscribeOk({"timeout"})
         [] ev = "Other"        -> TranscribeContinue("await")
         [] OTHER               -> TranscribeOk({"transport"})
    /\ UNCHANGED <<sideVars, feedVars, hookVars, inVars, flag, th, cb, ds_lock, produced, ignored, startedBusy, late, stopSeen,
                   drained, startCalls, transcribeCalls, injectCalls>>

\* ============================================================ app.rs, cont.

InjectOutcomes == {"ok", "err", "panic"}

\* injector::inject: Ok(()) at once on an empty text, otherwise the outcome
\* of typing or pasting it.
inject(t, o) == IF t = <<>> THEN "ok" ELSE o

\* Variant: the text is typed and then pasted as well.
Inject_Twice(o) ==
    /\ pc = "inject"
    /\ injectCalls' = Append(Append(injectCalls, text), text)
    /\ fail' = IF o = "ok" THEN fail ELSE fail \cup {"injection"}
    /\ GoIdle /\ DropReceiver
    /\ UNCHANGED <<sideVars, feedVars, hookVars, inVars, flag, th, cb, ds_lock, produced, ignored, startedBusy,
                   late, stopSeen, drained, startCalls, transcribeCalls, tresult>>

\* Variant: a failed injection is attempted a second time.
Inject_RetryOnError(o) ==
    /\ pc = "inject"
    /\ injectCalls' = IF inject(text, o) = "ok" THEN Append(injectCalls, text)
                      ELSE Append(Append(injectCalls, text), text)
    /\ fail' = IF inject(text, o) = "ok" THEN fail ELSE fail \cup {"injection"}
    /\ GoIdle /\ DropReceiver
    /\ UNCHANGED <<sideVars, feedVars, hookVars, inVars, flag, th, cb, ds_lock, produced, ignored, startedBusy,
                   late, stopSeen, drained, startCalls, transcribeCalls, tresult>>

\* spawn_blocking(|| injector::inject(&text, threshold)).await, then Idle.
Inject(o) ==
    /\ pc = "inject"
    /\ injectCalls' = Append(injectCalls, text)
    /\ fail' = IF inject(text, o) = "ok" THEN fail ELSE fail \cup {"injection"}
    /\ GoIdle /\ DropReceiver
    /\ UNCHANGED <<sideVars, feedVars, hookVars, inVars, flag, th, cb, ds_lock, produced, ignored, startedBusy, late, stopSeen,
                   drained, startCalls, transcribeCalls, tresult>>

\* ================================== audio.rs: one callback closure, alone

\* A stream has been built with some configuration and its flag is set.
FeedInit ==
    /\ InitMain
    /\ running = TRUE
    /\ \E r \in SourceRates, c \in SourceChannels : ds = Downsampler_new(r, c)
    /\ cb_count = 0 /\ tx_out = <<>> /\ ncalls = 0 /\ fed_in = <<>>
    /\ InitPure /\ InitResp /\ InitExtra

\* Variant: the callback does not look at the flag.
FeedCallback_NoFlagCheck(data) ==
    /\ ncalls < MaxCalls
    /\ ncalls' = ncalls + 1
    /\ cb_count' = cb_count + 1
    /\ ds' = feed(ds, data).ds
    /\ tx_out' = tx_out \o feed(ds, data).chunks
    /\ fed_in' = fed_in \o data
    /\ UNCHANGED <<running, mainVars, sideVars>>

\* One invocation of the closure built by build_i16_callback, its receiver
\* being alive: return at once when the flag is false, otherwise count the
\* invocation, feed the Downsampler and send every chunk returned.
FeedCallback(data) ==
    /\ ncalls < MaxCalls
    /\ ncalls' = ncalls + 1
    /\ IF ~running
       THEN UNCHANGED <<cb_count, ds, tx_out, fed_in>>
       ELSE /\ cb_count' = cb_count + 1
            /\ ds' = feed(ds, data).ds
            /\ tx_out' = tx_out \o feed(ds, data).chunks
            /\ fed_in' = fed_in \o data
    /\ UNCHANGED <<running, mainVars, sideVars>>

\* Variant: when the flag is cleared the samples left in the Downsampler are
\* sent as a last, short chunk.
FeedFlagStore_Flush ==
    /\ running
    /\ running' = FALSE
    /\ tx_out' = IF ds.out_buf = <<>> THEN tx_out ELSE Append(tx_out, ds.out_buf)
    /\ ds' = [ds EXCEPT !.out_buf = <<>>]
    /\ UNCHANGED <<cb_count, ncalls, fed_in, mainVars, sideVars>>

\* recording_flag.store(false) by the state machine.
FeedFlagStore ==
    /\ running
    /\ running' = FALSE
    /\ UNCHANGED <<ds, cb_count, tx_out, ncalls, fed_in, mainVars, sideVars>>

FeedNext ==
    \/ \E data \in CallbackData(ds.source_channels) : FeedCallback(data)
    \/ FeedFlagStore

\* ======================================= audio.rs: sample format conversion

I16_MIN == -32768
I16_MAX == 32767
I32_MAX == 2147483647
I32_MIN == -I32_MAX - 1

\* `as i16` applied to an i32: the low 16 bits, read as two's complement.
Wrap16(x) == ((x + 32768) % 65536) - 32768

\* `as i16` applied to a float that has already been truncated: saturation.
Saturate16(x) == IF x > I16_MAX THEN I16_MAX ELSE IF x < I16_MIN THEN I16_MIN ELSE x

\* u8_to_i16: ((s as i32 - 128) * 256) as i16.
u8_to_i16(s) == Wrap16((s - 128) * 256)

\* Variant: the low half of the sample is kept instead of the high half.
i32_to_i16_LowHalf(s) == Wrap16(s % 65536)

\* i32_to_i16: (s >> 16) as i16; the shift of a signed value keeps the sign,
\* it is the division by 2^16 rounded toward minus infinity.
i32_to_i16(s) == Wrap16(s \div 65536)

\* An f32 sample is a multiple of 1 / F32_ONE, an infinity or a NaN.  For
\* these values the product with i16::MAX is exact in f32.
F32_ONE == 4
F32(k) == [kind |-> "finite", num |-> k]
F32_NAN == [kind |-> "nan", num |-> 0]
F32_INF == [kind |-> "inf", num |-> 1]
F32_NEG_INF == [kind |-> "inf", num |-> -1]

\* f32::clamp(-1.0, 1.0): a NaN stays a NaN.
clamp(s) ==
    CASE s.kind = "nan" -> s
      [] s.kind = "inf" -> F32(s.num * F32_ONE)
      [] OTHER -> F32(IF s.num > F32_ONE THEN F32_ONE
                      ELSE IF s.num < -F32_ONE THEN -F32_ONE ELSE s.num)

\* f32_to_i16: (s.clamp(-1.0, 1.0) * i16::MAX as f32) as i16; the cast
\* truncates toward zero, saturates, and maps a NaN to 0.
f32_to_i16(s) ==
    IF clamp(s).kind = "nan" THEN 0
    ELSE Saturate16(TruncDiv(clamp(s).num * I16_MAX, F32_ONE))

\* The arguments the conversions are called with.
U8Samples == 0..255
I32Samples ==
    {I32_MIN, I32_MIN + 1, I32_MAX, I32_MAX - 1}
        \cup {k * 65536 + d : k \in {-2, -1, 0, 1, 2}, d \in {-1, 0, 1}}
        \cup {k * 16777259 : k \in -100..100}
F32Samples ==
    {F32(k) : k \in (-3 * F32_ONE)..(3 * F32_ONE)} \cup {F32_NAN, F32_INF, F32_NEG_INF}

\* ============================================= audio.rs: device and format

\* A name is the sequence of its characters.
Upper == <<"A", "B", "C", "D", "E", "R", "V">>
Lower == <<"a", "b", "c", "d", "e", "r", "v">>
to_lowercase(s) ==
    [i \in 1..Len(s) |->
        IF \E u \in 1..Len(Upper) : Upper[u] = s[i]
        THEN Lower[CHOOSE u \in 1..Len(Upper) : Upper[u] = s[i]]
        ELSE s[i]]
starts_with(s, p) == Len(p) <= Len(s) /\ SubSeq(s, 1, Len(p)) = p
contains(s, t) == \E i \in 0..(Len(s) - Len(t)) : SubSeq(s, i + 1, i + Len(t)) = t

skip_prefixes ==
    { <<"n","u","l","l">>, <<"d","e","f","a","u","l","t">>,
      <<"p","i","p","e","w","i","r","e">>, <<"p","u","l","s","e">>,
      <<"s","y","s","d","e","f","a","u","l","t">>, <<"d","s","n","o","o","p">>,
      <<"p","l","u","g","h","w">>, <<"j","a","c","k">>, <<"o","s","s">>,
      <<"u","p","m","i","x">>, <<"v","d","o","w","n","m","i","x">>,
      <<"l","a","v","r","a","t","e">>, <<"s","a","m","p","l","e","r","a","t","e">>,
      <<"s","p","e","e","x">>, <<"s","u","r","r","o","u","n","d">> }
hw_prefixes == { <<"h","w",":">>, <<"f","r","o","n","t",":">> }

\* The ALSA names cpal reports: PCM type, card id, device number.
MaxDevices == 2     \* input devices the host enumerates
CardIds == { <<"A">>, <<"A","B">> }
AlsaName(pcm, card) == pcm \o <<":","C","A","R","D","=">> \o card \o <<",","D","E","V","=","0">>
PcmTypes == { <<"h","w">>, <<"f","r","o","n","t">>, <<"p","l","u","g","h","w">> }
Device(name, card, named, configs) ==
    [name |-> name, card |-> card, named |-> named, configs |-> configs]
Devices ==
    {Device(AlsaName(t, c), c, TRUE, 1) : t \in PcmTypes, c \in CardIds}
        \cup {Device(AlsaName(<<"h","w">>, c), c, TRUE, 0) : c \in CardIds}
        \cup {Device(AlsaName(<<"h","w">>, <<"A">>), <<"A">>, FALSE, 1),
              Device(<<"d","e","f","a","u","l","t">>, <<>>, TRUE, 1),
              Device(<<"p","u","l","s","e">>, <<>>, TRUE, 1)}
DeviceLists == UNION {[1..n -> Devices] : n \in 0..MaxDevices}

\* What default_input_device sees: host.input_devices() (Ok or Err), the
\* card names detect_usb_alsa_cards returns, host.default_input_device().
Hosts ==
    [enumerable : BOOLEAN, devices : DeviceLists,
     usb_card_names : {<<>>, << <<"A">> >>, << <<"A","B">> >>},
     default : {<<>>, << Device(<<"d","e","f","a","u","l","t">>, <<>>, TRUE, 1) >>}]

\* The test the enumeration loop applies before looking at the card.
Considered(d) ==
    /\ d.named
    /\ ~\E p \in skip_prefixes : starts_with(to_lowercase(d.name), p)
    /\ \E p \in hw_prefixes : starts_with(to_lowercase(d.name), p)
    /\ d.configs > 0

\* lower.contains(&format!("card={}", usb_name.to_lowercase())) for some name.
is_usb(d, usb_card_names) ==
    \E u \in 1..Len(usb_card_names) :
        contains(to_lowercase(d.name),
                 <<"c","a","r","d","=">> \o to_lowercase(usb_card_names[u]))

\* default_input_device: the first USB hardware device, else the first other
\* hardware device, else the default device of the host, else an error.
default_input_device(host) ==
    LET devices == IF host.enumerable THEN host.devices ELSE <<>>
        usb_hw_devices ==
            SelectSeq(devices, LAMBDA d : Considered(d) /\ is_usb(d, host.usb_card_names))
        other_hw_devices ==
            SelectSeq(devices, LAMBDA d : Considered(d) /\ ~is_usb(d, host.usb_card_names))
    IN  IF usb_hw_devices # <<>>
        THEN [kind |-> "Ok", device |-> Head(usb_hw_devices), path |-> "enumerated"]
        ELSE IF other_hw_devices # <<>>
        THEN [kind |-> "Ok", device |-> Head(other_hw_devices), path |-> "enumerated"]
        ELSE IF host.default # <<>>
        THEN [kind |-> "Ok", device |-> Head(host.default), path |-> "fallback"]
        ELSE [kind |-> "Err", device |-> Device(<<>>, <<>>, FALSE, 0), path |-> "fallback"]

\* SupportedStreamConfigRange and the configurations a device reports.
MaxConfigs == 2     \* configurations supported_input_configs() yields
SampleFormats == {"I16", "F32", "I32", "U8", "I8"}
RateRanges == {<<8000, 48000>>, <<44100, 48000>>, <<8000, 8000>>}
ConfigRanges ==
    {[fmt |-> f, min |-> r[1], max |-> r[2], channels |-> c] :
        f \in SampleFormats, r \in RateRanges, c \in {2}}
ConfigLists == UNION {[1..n -> ConfigRanges] : n \in 0..MaxConfigs}
DefaultConfigs ==
    {<<>>, << [fmt |-> "F32", sample_rate |-> 48000, channels |-> 2] >>,
           << [fmt |-> "U8", sample_rate |-> 44100, channels |-> 1] >>}
ConfigDevices ==
    [default_input_config : DefaultConfigs, supported_ok : BOOLEAN,
     supported_input_configs : ConfigLists]

format_priority(fmt) ==
    CASE fmt = "I16" -> 0
      [] fmt = "F32" -> 1
      [] fmt = "I32" -> 2
      [] fmt = "U8"  -> 3
      [] OTHER       -> 4

\* Variant: the configurations are left in the order of the enumeration.
sort_by_key_Unsorted(configs) == configs

\* sort_by_key(|cfg| format_priority(cfg.sample_format())): a stable sort,
\* the configurations of one key keep the order of the enumeration.
sort_by_key(configs) ==
    LET OfKey(k) == SelectSeq(configs, LAMBDA c : format_priority(c.fmt) = k)
    IN  OfKey(0) \o OfKey(1) \o OfKey(2) \o OfKey(3) \o OfKey(4)

NoConfig == [fmt |-> "none", sample_rate |-> 0, channels |-> 0]

\* pick_input_config: the default configuration of the device, otherwise
\* the first supported configuration in the order of format_priority, at
\* TARGET_RATE if its range contains it and at its maximum rate if not.
pick_input_config(device) ==
    IF device.default_input_config # <<>>
    THEN [kind |-> "Ok", config |-> Head(device.default_input_config)]
    ELSE IF ~device.supported_ok
    THEN [kind |-> "Err", config |-> NoConfig]
    ELSE IF device.supported_input_configs = <<>>
    THEN [kind |-> "Err", config |-> NoConfig]
    ELSE LET best == sort_by_key(device.supported_input_configs)[1]
             rate == IF best.min <= TARGET_RATE /\ best.max >= TARGET_RATE
                     THEN TARGET_RATE ELSE best.max
         IN  [kind |-> "Ok",
              config |-> [fmt |-> best.fmt, sample_rate |-> rate, channels |-> best.channels]]

\* ------------------------------------------------- one call of a function
Returns(f, a, r) == fn' = f /\ arg' = a /\ ret' = r

Call_u8_to_i16 ==
    /\ fn = "none"
    /\ \E s \in U8Samples : Returns("u8_to_i16", [u8 |-> s], [i16 |-> u8_to_i16(s)])
    /\ UNCHANGED <<mainVars, feedVars, respVars, extraVars>>

Call_i32_to_i16 ==
    /\ fn = "none"
    /\ \E s \in I32Samples : Returns("i32_to_i16", [i32 |-> s], [i16 |-> i32_to_i16(s)])
    /\ UNCHANGED <<mainVars, feedVars, respVars, extraVars>>

Call_f32_to_i16 ==
    /\ fn = "none"
    /\ \E s \in F32Samples : Returns("f32_to_i16", [f32 |-> s], [i16 |-> f32_to_i16(s)])
    /\ UNCHANGED <<mainVars, feedVars, respVars, extraVars>>

Call_default_input_device ==
    /\ fn = "none"
    /\ \E host \in Hosts :
           Returns("default_input_device", [host |-> host], default_input_device(host))
    /\ UNCHANGED <<mainVars, feedVars, respVars, extraVars>>

Call_pick_input_config ==
    /\ fn = "none"
    /\ \E device \in ConfigDevices :
           Returns("pick_input_config", [device |-> device], pick_input_config(device))
    /\ UNCHANGED <<mainVars, feedVars, respVars, extraVars>>

\* ================================================ config.rs: the API URL

\* Config values, as character sequences: the fields api_url may read.
ApiKeys ==
    { <<"A","I","z","a","S","y","S","E","C","R","E","T">>,
      <<"A","I","z","a","S","y","T","e","s","t">>,
      <<"t","e","s","t","-","k","e","y","-","1","2","3">> }
Models ==
    { <<"m","o","d","e","l","s","/","g","e","m","i","n","i","-","2",".","0","-","f","l","a","s","h">>,
      <<"g","e","m","i","n","i","-","2",".","0","-","p","r","o">>,
      <<"m","o","d","e","l","s","/","g","e","m","i","n","i","-","2",".","5","-","f","l","a","s","h">> }
Configs == [api_key : ApiKeys, model : Models]

MODELS_PREFIX ==
    <<"m","o","d","e","l","s","/">>
API_BASE ==
    <<"h","t","t","p","s",":","/","/","g","e","n","e","r","a","t","i","v",
      "e","l","a","n","g","u","a","g","e",".","g","o","o","g","l","e","a",
      "p","i","s",".","c","o","m","/","v","1","b","e","t","a","/","m","o",
      "d","e","l","s","/">>
GENERATE_CONTENT ==
    <<":","g","e","n","e","r","a","t","e","C","o","n","t","e","n","t">>
API_KEY_HEADER ==
    <<"x","-","g","o","o","g","-","a","p","i","-","k","e","y">>
MODELS_LIST_URL ==
    <<"h","t","t","p","s",":","/","/","g","e","n","e","r","a","t","i","v",
      "e","l","a","n","g","u","a","g","e",".","g","o","o","g","l","e","a",
      "p","i","s",".","c","o","m","/","v","1","b","e","t","a","/","m","o",
      "d","e","l","s">>

\* str::strip_prefix(p).unwrap_or(s).
strip_prefix(str, p) ==
    IF starts_with(str, p) THEN SubSeq(str, Len(p) + 1, Len(str)) ELSE str

\* Variant: the key is passed as a query parameter.
api_url_KeyInQuery(config) ==
    API_BASE \o strip_prefix(config.model, MODELS_PREFIX) \o GENERATE_CONTENT
        \o <<"?","k","e","y","=">> \o config.api_key

\* Config::api_url.
api_url(config) ==
    API_BASE \o strip_prefix(config.model, MODELS_PREFIX) \o GENERATE_CONTENT

\* verify_api_key_sync: the request it sends.
verify_api_key_request(api_key) ==
    [url |-> MODELS_LIST_URL, headers |-> {<<API_KEY_HEADER, api_key>>}]

Call_api_url ==
    /\ fn = "none"
    /\ \E config \in Configs :
           Returns("api_url", [config |-> config], [url |-> api_url(config)])
    /\ UNCHANGED <<mainVars, feedVars, respVars, extraVars>>

Call_verify_api_key ==
    /\ fn = "none"
    /\ \E k \in ApiKeys :
           Returns("verify_api_key_sync", [api_key |-> k], verify_api_key_request(k))
    /\ UNCHANGED <<mainVars, feedVars, respVars, extraVars>>

PureNext ==
    \/ Call_u8_to_i16
    \/ Call_i32_to_i16
    \/ Call_f32_to_i16
    \/ Call_default_input_device
    \/ Call_pick_input_config
    \/ Call_api_url
    \/ Call_verify_api_key

\* ============================= network.rs: the response loop, alone, in time

\* config.timeout_secs, and `deadline`: Duration::from_secs(timeout_secs.max(3)).
TimeoutSecs == {1, 4}
Max(a, b) == IF a >= b THEN a ELSE b

\* turnComplete has been sent and the loop of step 4 is entered.
RespInit ==
    /\ InitMain
    /\ running = FALSE /\ ds = Downsampler_new(TARGET_RATE, 1)
    /\ cb_count = 0 /\ tx_out = <<>> /\ ncalls = 0 /\ fed_in = <<>>
    /\ InitPure /\ InitExtra
    /\ \E t \in TimeoutSecs : deadline = Max(t, 3)
    /\ rx_text = <<>> /\ rx_state = "await"
    /\ poll_wait = 0 /\ total_wait = 0

\* One second passes while timeout(deadline, stream.next()) is pending.
RespTick ==
    /\ rx_state = "await" /\ poll_wait < deadline /\ total_wait < MaxWait
    /\ poll_wait' = poll_wait + 1
    /\ total_wait' = total_wait + 1
    /\ UNCHANGED <<deadline, rx_text, rx_state, mainVars, feedVars, pureVars, extraVars>>

\* Err(_): the timeout of this iteration has elapsed, break.
RespTimeout ==
    /\ rx_state = "await" /\ poll_wait = deadline
    /\ rx_state' = "returned"
    /\ UNCHANGED <<deadline, rx_text, poll_wait, total_wait, mainVars, feedVars, pureVars, extraVars>>

\* stream.next() yields before the timeout of this iteration: a text delta
\* is appended, turn completion, close, error and end of stream break, any
\* other message (late setupComplete, unknown text, binary, ping) is skipped;
\* the loop then calls timeout(deadline, stream.next()) anew.
RespRecv(ev) ==
    /\ rx_state = "await" /\ poll_wait < deadline
    /\ CASE ev \in Chars ->
              /\ Len(rx_text) < MaxDeltas
              /\ rx_text' = Append(rx_text, ev)
              /\ poll_wait' = 0
              /\ UNCHANGED rx_state
         [] ev = "Other" ->
              /\ poll_wait' = 0
              /\ UNCHANGED <<rx_text, rx_state>>
         [] OTHER ->
              /\ rx_state' = "returned"
              /\ UNCHANGED <<rx_text, poll_wait>>
    /\ UNCHANGED <<deadline, total_wait, mainVars, feedVars, pureVars, extraVars>>

RespNext ==
    \/ RespTick
    \/ RespTimeout
    \/ \E ev \in Chars \cup (ServerEvents \ {"Timeout"}) : RespRecv(ev)

\* ============================================ input.rs: the hook, alone

\* The combinations parse_hotkey may yield and the keys rdev may report.
Hotkeys == [modifiers : SUBSET {"Ctrl", "Shift"}, trigger : {HotkeyTrigger}]
AllKeys == {HotkeyTrigger, "ControlLeft", "ControlRight", "ShiftLeft", "KeyA"}

\* HookState::new for any combination; nothing takes the signals sent.
KeyInit ==
    /\ hotkey \in Hotkeys
    /\ InitState
    /\ running = FALSE /\ ds = Downsampler_new(TARGET_RATE, 1)
    /\ cb_count = 0 /\ tx_out = <<>> /\ ncalls = 0 /\ fed_in = <<>>
    /\ InitPure /\ InitResp /\ InitExtra

KeyNext ==
    \/ \E k \in AllKeys : KeyPress(k)
    \/ \E k \in AllKeys : KeyRelease(k)
    \/ DebounceElapsed

\* ===================================== network.rs: one call of transcribe

\* Messages transcribe sends on the sink.
SetupMsg == [kind |-> "setup", chunk |-> 0]
AudioMsg(c) == [kind |-> "audio", chunk |-> c]
TurnCompleteMsg == [kind |-> "turnComplete", chunk |-> 0]

\* What stream.next() yields in the response loop besides a text delta.
NetEvents ==
    {"TurnComplete", "SetupComplete", "Unknown", "Close", "Binary", "RecvError",
     "StreamEnd", "Timeout"}

\* transcribe is called: both channels are open and empty.
NetInit ==
    /\ InitMain
    /\ running = FALSE /\ ds = Downsampler_new(TARGET_RATE, 1)
    /\ cb_count = 0 /\ tx_out = <<>> /\ ncalls = 0 /\ fed_in = <<>>
    /\ InitPure /\ InitResp /\ InitClip
    /\ n_pc = "connect" /\ n_sent = <<>> /\ n_audio = <<>> /\ n_audio_closed = FALSE
    /\ n_stop = "none" /\ n_text = <<>> /\ n_in = <<>> /\ n_produced = 0
    /\ n_setup_ok = FALSE /\ n_result = "none"

\* bail! or `?`: transcribe returns an error.
NetErr == n_pc' = "done" /\ n_result' = "Err"

\* The capture side sends a chunk on audio_tx.
NetProduce ==
    /\ n_pc # "done" /\ ~n_audio_closed /\ n_produced < MaxChunks
    /\ n_produced' = n_produced + 1
    /\ n_audio' = Append(n_audio, n_produced')
    /\ UNCHANGED <<n_pc, n_sent, n_audio_closed, n_stop, n_text, n_in, n_setup_ok, n_result,
                   mainVars, feedVars, pureVars, respVars, clipVars>>

\* The capture side drops audio_tx.
NetAudioClose ==
    /\ n_pc # "done" /\ ~n_audio_closed
    /\ n_audio_closed' = TRUE
    /\ UNCHANGED <<n_pc, n_sent, n_audio, n_stop, n_text, n_in, n_produced, n_setup_ok,
                   n_result, mainVars, feedVars, pureVars, respVars, clipVars>>

\* The caller sends the stop signal, or drops its sender.
NetStop(how) ==
    /\ n_pc # "done" /\ n_stop = "none"
    /\ n_stop' = how
    /\ UNCHANGED <<n_pc, n_sent, n_audio, n_audio_closed, n_text, n_in, n_produced,
                   n_setup_ok, n_result, mainVars, feedVars, pureVars, respVars, clipVars>>

\* connect_async(&url), then step 1: the setup message is sent.
NetConnect(o) ==
    /\ n_pc = "connect"
    /\ CASE o = "ok" -> /\ n_sent' = Append(n_sent, SetupMsg)
                        /\ n_pc' = "setup_wait" /\ UNCHANGED n_result
         [] o = "send_failed" -> NetErr /\ UNCHANGED n_sent
         [] OTHER -> NetErr /\ UNCHANGED n_sent
    /\ UNCHANGED <<n_audio, n_audio_closed, n_stop, n_text, n_in, n_produced, n_setup_ok,
                   mainVars, feedVars, pureVars, respVars, clipVars>>

\* timeout(5 s, stream.next()): any message confirms the setup; an error, the
\* end of the stream and the timeout return an error.
NetSetupResponse(o) ==
    /\ n_pc = "setup_wait"
    /\ IF o = "msg"
       THEN n_pc' = "stream" /\ n_setup_ok' = TRUE /\ UNCHANGED n_result
       ELSE NetErr /\ UNCHANGED n_setup_ok
    /\ UNCHANGED <<n_sent, n_audio, n_audio_closed, n_stop, n_text, n_in, n_produced,
                   mainVars, feedVars, pureVars, respVars, clipVars>>

\* Variant: the stop signal ends the call's sending of audio at once, the
\* chunks still queued being left in the channel.
NetStreamStop_SkipDrain ==
    /\ n_pc = "stream" /\ n_stop # "none"
    /\ n_pc' = "turn"
    /\ UNCHANGED <<n_sent, n_audio, n_audio_closed, n_stop, n_text, n_in, n_produced,
                   n_setup_ok, n_result, mainVars, feedVars, pureVars, respVars, clipVars>>

\* select!, stop branch: stop_rx.recv() returns on a signal and on the
\* closure of the channel alike; recording = false.
NetStreamStop ==
    /\ n_pc = "stream" /\ n_stop # "none"
    /\ n_pc' = "drain"
    /\ UNCHANGED <<n_sent, n_audio, n_audio_closed, n_stop, n_text, n_in, n_produced,
                   n_setup_ok, n_result, mainVars, feedVars, pureVars, respVars, clipVars>>

\* select!, audio branch, Some(pcm_data): the chunk is encoded and sent; a
\* failed send returns an error.
NetStreamChunk(o) ==
    /\ n_pc = "stream" /\ n_audio # <<>>
    /\ n_audio' = Tail(n_audio)
    /\ IF o = "ok"
       THEN /\ n_sent' = Append(n_sent, AudioMsg(Head(n_audio)))
            /\ UNCHANGED <<n_pc, n_result>>
       ELSE NetErr /\ UNCHANGED n_sent
    /\ UNCHANGED <<n_audio_closed, n_stop, n_text, n_in, n_produced, n_setup_ok,
                   mainVars, feedVars, pureVars, respVars, clipVars>>

\* select!, audio branch, None: recording = false.
NetStreamClosed ==
    /\ n_pc = "stream" /\ n_audio = <<>> /\ n_audio_closed
    /\ n_pc' = "drain"
    /\ UNCHANGED <<n_sent, n_audio, n_audio_closed, n_stop, n_text, n_in, n_produced,
                   n_setup_ok, n_result, mainVars, feedVars, pureVars, respVars, clipVars>>

\* while let Ok(chunk) = audio_rx.try_recv(): the chunk is sent; a failed
\* send ends the drain.
NetDrainChunk(o) ==
    /\ n_pc = "drain" /\ n_audio # <<>>
    /\ n_audio' = Tail(n_audio)
    /\ IF o = "ok"
       THEN n_sent' = Append(n_sent, AudioMsg(Head(n_audio))) /\ UNCHANGED n_pc
       ELSE n_pc' = "turn" /\ UNCHANGED n_sent
    /\ UNCHANGED <<n_audio_closed, n_stop, n_text, n_in, n_produced, n_setup_ok, n_result,
                   mainVars, feedVars, pureVars, respVars, clipVars>>

\* try_recv() finds the channel empty or closed.
NetDrainDone ==
    /\ n_pc = "drain" /\ n_audio = <<>>
    /\ n_pc' = "turn"
    /\ UNCHANGED <<n_sent, n_audio, n_audio_closed, n_stop, n_text, n_in, n_produced,
                   n_setup_ok, n_result, mainVars, feedVars, pureVars, respVars, clipVars>>

\* Step 3: turnComplete is sent; a failed send returns an error.
NetTurnComplete(o) ==
    /\ n_pc = "turn"
    /\ IF o = "ok"
       THEN /\ n_sent' = Append(n_sent, TurnCompleteMsg)
            /\ n_pc' = "await" /\ UNCHANGED n_result
       ELSE NetErr /\ UNCHANGED n_sent
    /\ UNCHANGED <<n_audio, n_audio_closed, n_stop, n_text, n_in, n_produced, n_setup_ok,
                   mainVars, feedVars, pureVars, respVars, clipVars>>

\* Step 4, one iteration: a text delta is appended; SetupComplete, Unknown
\* and frames that are not text go round the loop; everything else ends it
\* and transcribe returns Ok with what was accumulated.
NetRecv(ev) ==
    /\ n_pc = "await"
    /\ CASE ev \in Chars ->
              /\ Len(n_in) < MaxDeltas
              /\ n_text' = Append(n_text, ev) /\ n_in' = Append(n_in, ev)
              /\ UNCHANGED <<n_pc, n_result>>
         [] ev \in {"SetupComplete", "Unknown", "Binary"} ->
              UNCHANGED <<n_pc, n_text, n_in, n_result>>
         [] OTHER ->
              /\ n_pc' = "done" /\ n_result' = "Ok"
              /\ UNCHANGED <<n_text, n_in>>
    /\ UNCHANGED <<n_sent, n_audio, n_audio_closed, n_stop, n_produced, n_setup_ok,
                   mainVars, feedVars, pureVars, respVars, clipVars>>

NetNext ==
    \/ NetProduce
    \/ NetAudioClose
    \/ \E how \in {"signalled", "closed"} : NetStop(how)
    \/ \E o \in {"ok", "send_failed", "connect_failed"} : NetConnect(o)
    \/ \E o \in {"msg", "err", "closed", "timeout"} : NetSetupResponse(o)
    \/ NetStreamStop
    \/ \E o \in {"ok", "failed"} : NetStreamChunk(o)
    \/ NetStreamClosed
    \/ \E o \in {"ok", "failed"} : NetDrainChunk(o)
    \/ NetDrainDone
    \/ \E o \in {"ok", "failed"} : NetTurnComplete(o)
    \/ \E ev \in Chars \cup NetEvents : NetRecv(ev)

\* ============================== injector.rs: one call of inject_clipboard

\* What the system clipboard may hold (NoClip: nothing, or something that
\* is not text), and the texts injected.
Text(t) == [kind |-> "text", text |-> t]
ClipTexts == {<<"o">>, <<"o", "l", "d">>, <<"a">>}
InjectTexts == {<<"a">>, <<"a", " ", "a">>}
ClipContents == {NoClip} \cup {Text(t) : t \in ClipTexts}

\* inject_clipboard(text) is called with any clipboard.
ClipInit ==
    /\ InitMain
    /\ running = FALSE /\ ds = Downsampler_new(TARGET_RATE, 1)
    /\ cb_count = 0 /\ tx_out = <<>> /\ ncalls = 0 /\ fed_in = <<>>
    /\ InitPure /\ InitResp /\ InitNet
    /\ c_pc = "new" /\ c_text \in InjectTexts /\ clip \in ClipContents
    /\ c_backup = NoClip /\ c_original = clip /\ c_pasted = <<>> /\ c_result = "none"

\* Clipboard::new().context(..)?
ClipboardNew(o) ==
    /\ c_pc = "new"
    /\ IF o = "ok" THEN c_pc' = "backup" /\ UNCHANGED c_result
                   ELSE c_pc' = "done" /\ c_result' = "Err"
    /\ UNCHANGED <<c_text, clip, c_backup, c_original, c_pasted, mainVars, feedVars, pureVars, respVars, netVars>>

\* Step 1: backup = clipboard.get_text().ok(): None when the clipboard holds
\* no text or the read fails.
ClipboardBackup(o) ==
    /\ c_pc = "backup"
    /\ c_backup' = IF o = "ok" THEN clip ELSE NoClip
    /\ c_pc' = "set"
    /\ UNCHANGED <<c_text, clip, c_original, c_pasted, c_result, mainVars, feedVars, pureVars, respVars, netVars>>

\* Step 2: clipboard.set_text(text).context(..)?
ClipboardSetText(o) ==
    /\ c_pc = "set"
    /\ IF o = "ok"
       THEN clip' = Text(c_text) /\ c_pc' = "paste" /\ UNCHANGED c_result
       ELSE c_pc' = "done" /\ c_result' = "Err" /\ UNCHANGED clip
    /\ UNCHANGED <<c_text, c_backup, c_original, c_pasted, mainVars, feedVars, pureVars, respVars, netVars>>

\* Step 3: paste_shortcut()?: Enigo::new may fail, which returns the error;
\* failures of the key events are logged only.
paste_shortcut(o) ==
    /\ c_pc = "paste"
    /\ CASE o = "ok" -> /\ c_pasted' = Append(c_pasted, clip.text)
                        /\ c_pc' = "restore" /\ UNCHANGED c_result
         [] o = "keys_failed" -> /\ c_pc' = "restore"
                                 /\ UNCHANGED <<c_pasted, c_result>>
         [] OTHER -> /\ c_pc' = "done" /\ c_result' = "Err"
                     /\ UNCHANGED c_pasted
    /\ UNCHANGED <<c_text, clip, c_backup, c_original, mainVars, feedVars, pureVars, respVars, netVars>>

\* Steps 4 and 5: with a backup the clipboard is acquired again and the
\* original text set, both failures being logged only; Ok(()) is returned.
ClipboardRestore(o) ==
    /\ c_pc = "restore"
    /\ clip' = IF c_backup.kind = "text" /\ o = "ok" THEN c_backup ELSE clip
    /\ c_pc' = "done" /\ c_result' = "Ok"
    /\ UNCHANGED <<c_text, c_backup, c_original, c_pasted, mainVars, feedVars, pureVars, respVars, netVars>>

ClipNext ==
    \/ \E o \in {"ok", "failed"} : ClipboardNew(o)
    \/ \E o \in {"ok", "failed"} : ClipboardBackup(o)
    \/ \E o \in {"ok", "failed"} : ClipboardSetText(o)
    \/ \E o \in {"ok", "keys_failed", "enigo_failed"} : paste_shortcut(o)
    \/ \E o \in {"ok", "new_failed", "set_failed"} : ClipboardRestore(o)

\* ============================================================ specification

HookNext ==
    \/ \E k \in Keys : KeyPress(k)
    \/ \E k \in Keys : KeyRelease(k)
    \/ DebounceElapsed
    \/ ListenerCrash

CaptureNext ==
    \/ \E s \in 1..cur : \E o \in {"ok"} \cup ThreadErrors : ThreadStart(s, o)
    \/ \E s \in 1..cur : CallbackEnter(s)
    \/ \E s \in 1..cur : CallbackSend(s)
    \/ \E s \in 1..cur : SupervisorExit(s)

SSMNext ==
    \/ IdleRecvStart
    \/ IdleRecvStop
    \/ IdleRecvNone
    \/ \E o \in {"ok"} \cup CaptureErrors : RecEnter(o)
    \/ RecRecvStop
    \/ RecRecvStart
    \/ RecRecvNone
    \/ RecRecvChunk
    \/ RecRecvChunkNone
    \/ StoreFlag
    \/ DrainChunk
    \/ DrainDone
    \/ \E o \in {"ok", "failed"} : TConnect(o)
    \/ \E o \in {"msg", "err", "closed", "timeout"} : TSetupResponse(o)
    \/ \E o \in {"ok", "failed"} : TStream(o)
    \/ \E ev \in Chars \cup ServerEvents : TRecv(ev)
    \/ \E o \in InjectOutcomes : Inject(o)

SourceNext ==
    \/ \E sig \in {"Start", "Stop"} : SourceSend(sig)
    \/ ListenerCrash

\* The state machine against its collaborators, the signal source being any
\* producer of edges.
Next == SourceNext \/ CaptureNext \/ SSMNext

Spec == Init /\ [][Next]_vars

\* The state machine fed by the keyboard hook of input.rs.
HookSpec == Init /\ [][HookNext \/ CaptureNext \/ SSMNext]_vars

\* The conversion, device selection and format negotiation functions of
\* audio.rs, each called once with any argument.
\* HookState::handle_event for any sequence of key events, the signals it
\* sends staying in the channel.
KeySpec == KeyInit /\ [][KeyNext]_vars

PureSpec == Init /\ [][PureNext]_vars

\* The response loop of transcribe against any server, with the passing of
\* time.
RespSpec == RespInit /\ [][RespNext]_vars

\* One callback closure and its Downsampler, for every configuration.
FeedSpec == FeedInit /\ [][FeedNext]_vars

\* One call of transcribe against any server, capture side and caller.
NetSpec == NetInit /\ [][NetNext]_vars

\* One call of inject_clipboard, every step of it succeeding or failing.
ClipSpec == ClipInit /\ [][ClipNext]_vars

\* The runtime runs the state machine task, the collaborators answer, and
\* the capture threads are scheduled.
FairSpec == Spec /\ WF_vars(SSMNext) /\ WF_vars(CaptureNext)

\* ================================================================== claims

\* The state machine has just taken the edge at the head of the channel.
Consumed == input_q # <<>> /\ input_q' = Tail(input_q)

IsPrefix(a, b) == Len(a) <= Len(b) /\ a = SubSeq(b, 1, Len(a))

\* C1: whichever failure occurs in a session (empty recording, transcription
\* timeout, transcription transport error, empty transcription, injection
\* failure) the cycle ends in Idle, and a Start edge delivered afterwards is
\* accepted and begins a new Recording.
C1_TotalRecovery ==
    /\ (fail # {}) ~> (Phase = "Idle")
    /\ (fail # {} /\ pc = "idle" /\ input_q # <<>> /\ Head(input_q).sig = "Start")
           ~> (Phase = "Recording" /\ fail = {})

\* A session whose capture started ended without a single chunk produced
\* (an empty recording), and the next Start has been accepted.
C1_Witness ==
    /\ pc = "rec_enter" /\ cur = 1 /\ th[1] # "none" /\ produced = <<>>
    /\ fail = {} /\ nedges >= 2

\* C2: when transcription returns a non-empty text T, the injection
\* collaborator is invoked exactly once in the session, with exactly T, and
\* the machine is then Idle.
C2_InjectExactlyOnce ==
    /\ (Phase = "Idle" /\ tresult.kind = "ok" /\ tresult.text # <<>>)
           => injectCalls = <<tresult.text>>
    /\ injectCalls # <<>> => Phase = "Idle"

C2_Witness ==
    /\ pc = "idle" /\ stopSeen /\ tresult.kind = "ok" /\ tresult.text # <<>>
    /\ injectCalls = <<tresult.text>> /\ fail = {}

\* C3 (as claimed): once the transcription step has met a transport failure
\* or a timeout, nothing is injected in that session and the machine does not
\* go on to Injecting.
C3_NoInjectionAfterFailure ==
    (fail \cap {"timeout", "transport"} # {}) => (injectCalls = <<>> /\ pc # "inject")

\* C4: whenever the transcription collaborator has been invoked, the
\* session's LivenessFlag is false and the final drain has found the chunk
\* channel empty.
C4_StopBeforeTranscribe ==
    (pc = "transcribe" \/ transcribeCalls > 0) => (~flag[cur] /\ drained)

C4_Witness ==
    pc = "transcribe" /\ tphase = "connect" /\ ~flag[cur] /\ drained /\ stopSeen

\* C5 (as claimed): every chunk the callback sends after the Stop edge, having
\* read the flag as set, is in the buffer handed to transcription.
C5_LateChunksCollected ==
    (pc = "transcribe" /\ stopSeen) => late \subseteq Range(all_samples)

\* C6: the buffer handed to transcription holds the session's chunks in send
\* order without gap or repetition, and when every chunk was sent before the
\* stop decision it holds all of them.
C6_CollectorComplete ==
    pc = "transcribe" =>
        /\ IsPrefix(all_samples, ChunksOf(cur))
        /\ late = {} => all_samples = ChunksOf(cur)

C6_Witness ==
    /\ pc = "transcribe" /\ late = {} /\ Len(all_samples) = 2
    /\ all_samples = ChunksOf(cur)

\* C7: a Start edge received while Recording changes nothing: start_capture
\* has been called once for this entry into Recording, no flag, channel or
\* thread is created and the collected samples are kept.
C7_DuplicateStartNoOp ==
    /\ [](pc = "collect" => startCalls = 1)
    /\ [][(Phase = "Recording" /\ pc = "collect" /\ Consumed /\ Head(input_q).sig = "Start")
            => (pc' = "collect" /\ UNCHANGED <<state, all_samples, flag, chan, th, cb, startCalls>>)]_vars

C7_Witness ==
    pc = "collect" /\ ignored >= 2 /\ all_samples # <<>> /\ startCalls = 1 /\ cur = 1

\* C8: in Idle a Stop edge changes nothing (no capture, no transcription, no
\* injection), and the machine leaves Idle only by taking a Start edge, to
\* Recording.
C8_IdleIgnoresStop ==
    /\ [][(pc = "idle" /\ Consumed /\ Head(input_q).sig = "Stop")
            => (pc' = "idle" /\ UNCHANGED <<state, capVars, startCalls, transcribeCalls, injectCalls>>)]_vars
    /\ [][(Phase = "Idle" /\ Phase' # "Idle")
            => (Consumed /\ Head(input_q).sig = "Start" /\ Phase' = "Recording")]_vars

C8_Witness ==
    pc = "idle" /\ cur = 0 /\ ignored >= 2 /\ state = "Idle"

\* C9 (as claimed): a Start edge sent while the machine was Processing or
\* Injecting never starts a recording session.
C9_BusyStartNeverRecords ==
    Phase = "Recording" => ~startedBusy

\* C9 (amended): while the machine is Processing or Injecting it takes no edge
\* from the signal channel; a Start sent meanwhile stays queued and, once the
\* machine is back in Idle and receives it, starts a Recording.
C9_BusyStartDeferred ==
    /\ [][(Phase \in {"Processing", "Injecting"}) => ~Consumed]_vars
    /\ [][(pc = "idle" /\ Consumed /\ Head(input_q).sig = "Start" /\ Head(input_q).busy)
            => Phase' = "Recording"]_vars

C9_Witness ==
    pc = "collect" /\ startedBusy /\ flag[cur]

\* C10: once the signal channel is closed and the machine is Idle it parks:
\* it stays Idle for ever, starts no capture and takes no further step.
C10_ParksForever ==
    /\ [][(pc = "idle" /\ input_q = <<>> /\ input_closed) => pc' \in {"idle", "parked"}]_vars
    /\ [][pc = "parked" => (pc' = "parked" /\ UNCHANGED <<ssmVars, flag, chan, startCalls,
                                                       transcribeCalls, injectCalls>>)]_vars

C10_Witness ==
    pc = "parked" /\ input_closed /\ state = "Idle"

\* A session is live while its flag is set and its capture thread exists.
Live(s) == flag[s] /\ th[s] \in {"spawned", "running"}

\* C11: at most one session is live; entering Recording constructs a new
\* flag (set) and a new, empty channel and leaves those of earlier sessions
\* alone; a channel and the buffer only ever hold chunks produced by their own
\* session's capture; a flag changes only by being cleared by its own session.
C11_FreshSessionState ==
    /\ [](Cardinality({s \in 1..cur : Live(s)}) <= 1)
    /\ [](\A s \in 1..cur : \A i \in 1..Len(chan[s]) : produced[chan[s][i]] = s)
    /\ [](\A i \in 1..Len(all_samples) : produced[all_samples[i]] = cur)
    /\ [][(pc = "rec_enter" /\ pc' # "rec_enter")
            => /\ Len(flag') = Len(flag) + 1 /\ Len(chan') = Len(chan) + 1
               /\ flag'[Len(flag')] /\ chan'[Len(chan')] = <<>>
               /\ \A s \in 1..cur : flag'[s] = flag[s] /\ chan'[s] = chan[s]]_vars
    /\ [][\A s \in 1..cur : flag'[s] # flag[s] => (s = cur /\ ~flag'[s])]_vars

\* The second session has collected a chunk of its own after the first
\* session produced one.
C11_Witness ==
    /\ cur = 2 /\ pc = "collect" /\ all_samples # <<>>
    /\ ChunksOf(1) # <<>> /\ ~flag[1] /\ flag[2]

\* C12: when start_capture returns an error the machine goes straight to
\* Idle: it consumes no edge, calls neither transcription nor injection, and
\* the session has no thread, no chunk and is never waited on.
C12_CaptureStartFailure ==
    /\ [][(pc = "rec_enter" /\ pc' # "rec_enter" /\ th'[Len(th')] = "none")
            => (pc' = "idle" /\ state' = "Idle"
                /\ UNCHANGED <<input_q, transcribeCalls, injectCalls>>)]_vars
    /\ [](\A s \in 1..cur : th[s] = "none" => (ChunksOf(s) = <<>> /\ chan[s] = <<>>))
    /\ []((cur > 0 /\ th[cur] = "none" /\ pc # "rec_enter")
            => (Phase = "Idle" /\ transcribeCalls = 0 /\ injectCalls = <<>> /\ ~stopSeen))

\* start_capture has failed and the machine is Idle while the Stop edge of
\* that key press is still queued.
C12_Witness ==
    /\ pc = "idle" /\ cur = 1 /\ th[1] = "none" /\ startCalls = 1
    /\ input_q # <<>> /\ Head(input_q).sig = "Stop"

\* C13 (as claimed): whenever stream construction or stream start has failed
\* for a session, start_capture has returned an error for that session.
C13_CaptureFailuresSynchronous ==
    \A s \in 1..cur :
        th[s] \in {"StreamConstructionFailed", "StreamStartFailed"}
            => StartCaptureResult(s) = "Err"

\* C14: transcription is never invoked with an empty buffer; a session whose
\* finalized buffer is empty goes to Idle with no transcription and no
\* injection.
C14_NoEmptyTranscription ==
    /\ pc = "transcribe" => all_samples # <<>>
    /\ "empty_recording" \in fail
           => (Phase = "Idle" /\ transcribeCalls = 0 /\ injectCalls = <<>>)

C14_Witness ==
    pc = "idle" /\ "empty_recording" \in fail /\ stopSeen /\ drained /\ th[cur] = "running"

\* C15: injection is never invoked with an empty text; a session whose
\* transcription succeeded with an empty text is back in Idle with nothing
\* injected; inject on an empty text succeeds at once.
C15_NoEmptyInjection ==
    /\ \A i \in 1..Len(injectCalls) : injectCalls[i] # <<>>
    /\ pc = "inject" => text # <<>>
    /\ "empty_text" \in fail
           => (Phase = "Idle" /\ tresult = [kind |-> "ok", text |-> <<>>] /\ injectCalls = <<>>)
    /\ \A o \in InjectOutcomes : inject(<<>>, o) = "ok"

C15_Witness ==
    /\ pc = "idle" /\ "empty_text" \in fail /\ transcribeCalls = 1
    /\ tresult.kind = "ok" /\ injectCalls = <<>>

\* C16: within one session transcription is invoked at most once and
\* injection at most once, whatever their outcome; the count of calls only
\* starts again with the Start edge of a new session.
C16_NoRetry ==
    /\ [](transcribeCalls <= 1 /\ Len(injectCalls) <= 1)
    /\ [][(transcribeCalls' < transcribeCalls \/ Len(injectCalls') < Len(injectCalls))
            => (pc = "idle" /\ Consumed /\ Head(input_q).sig = "Start")]_vars

\* Injection has failed and the machine is back in Idle after one call of
\* each collaborator.
C16_Witness ==
    /\ pc = "idle" /\ "injection" \in fail
    /\ transcribeCalls = 1 /\ Len(injectCalls) = 1

\* Session s has sent (or tried to send) a chunk in this step.
Sends(s) == Len(produced') > Len(produced) /\ produced'[Len(produced')] = s

\* C17: a callback that has a chunk to forward can always take its send step,
\* whatever the consumer is doing; when the receiver is gone the chunk is put
\* in no channel and the callback returns.
C17_CallbackNeverBlocks ==
    /\ [](\A s \in 1..cur : cb[s] > 0 => ENABLED CallbackSend(s))
    /\ [][\A s \in 1..cur : (Sends(s) /\ ~RxAlive(s)) => (cb'[s] = 0 /\ UNCHANGED chan)]_vars

\* A callback that has sent one chunk has another to send while the state
\* machine is back in Idle and the receiver is dropped.
C17_Witness ==
    pc = "idle" /\ cur = 1 /\ cb[1] = 1 /\ produced = <<1>> /\ ~flag[1]

\* C18 (as claimed): a callback that has a chunk to send does not hold the
\* lock of the Downsampler.
C18_LockNotHeldWhileSending ==
    \A s \in 1..cur : cb[s] > 0 => ~ds_lock[s]

\* C19: a running stream is only dropped by the supervising loop, when it has
\* read the flag as false, and the thread then ends; once the flag of a
\* running capture is false the thread eventually ends.
C19_SupervisorTearsDown ==
    /\ [][\A s \in 1..cur : (th[s] = "running" /\ th'[s] # "running")
                                => (~flag[s] /\ th'[s] = "exited")]_vars
    /\ \A s \in 1..MaxEdges :
           (s <= cur /\ th[s] = "running" /\ ~flag[s]) ~> (s <= cur /\ th[s] = "exited")

C19_Witness ==
    cur = 1 /\ th[1] = "exited" /\ ~flag[1] /\ ChunksOf(1) # <<>> /\ stopSeen

\* C20: an invocation of the callback that reads the flag as false leaves
\* the Downsampler (buffer and cursor) as it was, sends no chunk and is not
\* counted as served.
C20_IdleCallbackNoOp ==
    [][(ncalls' = ncalls + 1 /\ ~running) => UNCHANGED <<ds, tx_out, cb_count>>]_vars

\* The callback has been invoked after the flag was cleared, with samples of
\* an earlier invocation waiting in the buffer and a chunk already sent.
C20_Witness ==
    /\ ~running /\ ncalls > cb_count /\ cb_count > 0
    /\ ds.out_buf # <<>> /\ tx_out # <<>>

\* Everything the Downsampler has put out: the chunks sent, then what waits
\* in its buffer.
RECURSIVE Flatten(_)
Flatten(q) == IF q = <<>> THEN <<>> ELSE Head(q) \o Flatten(Tail(q))
Outputs == Flatten(tx_out) \o ds.out_buf

\* C21: for a mono source at the target rate, the chunks returned so far
\* followed by the retained remainder are exactly the samples fed, in value
\* and order, and floor(N / SAMPLES_PER_CHUNK) chunks have been returned.
C21_ResamplerIdentity ==
    (ds.source_rate = TARGET_RATE /\ ds.source_channels = 1)
        => (Outputs = fed_in /\ Len(tx_out) = Len(fed_in) \div SAMPLES_PER_CHUNK)

\* Three feeds of a mono 16 kHz source have returned chunks and left a
\* remainder.
C21_Witness ==
    /\ ds.source_rate = TARGET_RATE /\ ds.source_channels = 1
    /\ cb_count = 3 /\ Len(tx_out) >= 2 /\ ds.out_buf # <<>>

\* C22: every chunk has SAMPLES_PER_CHUNK samples; after every feed fewer
\* than SAMPLES_PER_CHUNK samples are left in the buffer; and the samples
\* left are the beginning of the next chunk returned.
C22_ChunkFraming ==
    /\ [](\A i \in 1..Len(tx_out) : Len(tx_out[i]) = SAMPLES_PER_CHUNK)
    /\ [](Len(ds.out_buf) < SAMPLES_PER_CHUNK)
    /\ [][Len(tx_out') > Len(tx_out)
            => IsPrefix(ds.out_buf, tx_out'[Len(tx_out) + 1])]_vars

\* Two feeds have returned two chunks and emptied the buffer.
C22_Witness ==
    /\ ds.source_rate = TARGET_RATE /\ cb_count = 2
    /\ Len(tx_out) = 2 /\ ds.out_buf = <<>>

\* The number of frames fed so far, and what one Downsampler of the same
\* configuration puts out when it is fed all of them in a single call.
FramesFed == Len(fed_in) \div ds.source_channels
OneShot == feed(Downsampler_new(ds.source_rate, ds.source_channels), fed_in)
OneShotOutputs == Flatten(OneShot.chunks) \o OneShot.ds.out_buf
Abs(x) == IF x >= 0 THEN x ELSE -x

\* C23 (as claimed): for a 48000 Hz mono source the number of output samples
\* is within 2% of a third of the number of frames fed, for every frame
\* sequence, and the number of chunks differs by at most one from that of a
\* Downsampler fed the same frames in one call.
C23_RatioWithinTwoPercent ==
    (ds.source_rate = 48000 /\ ds.source_channels = 1 /\ FramesFed > 0)
        => /\ 50 * Abs(3 * Len(Outputs) - FramesFed) <= FramesFed
           /\ Abs(Len(tx_out) - Len(OneShot.chunks)) <= 1

\* C23 (amended): for a 48000 Hz mono source the number of output samples is
\* exactly the number of frames fed divided by three, rounded up (which is
\* within 2% of a third once 100 frames have been fed), and the output is the
\* same, sample for sample, as that of a Downsampler fed the same frames in
\* one call.
C23_RatioAndBoundaryIndependence ==
    (ds.source_rate = 48000 /\ ds.source_channels = 1)
        => /\ Len(Outputs) = (FramesFed + 2) \div 3
           /\ FramesFed >= 100 => 50 * Abs(3 * Len(Outputs) - FramesFed) <= FramesFed
           /\ Outputs = OneShotOutputs
           /\ Len(tx_out) = Len(OneShot.chunks)

\* Three callbacks of 800 frames each, none a multiple of the step.
C23_Witness ==
    /\ ds.source_rate = 48000 /\ ds.source_channels = 1
    /\ cb_count = 3 /\ FramesFed = 2400 /\ Len(Outputs) = 800

\* C24: resample_pos is carried from one feed to the next: it always is the
\* position of the next output sample relative to the frames fed so far; and
\* after every feed it is at least 0 and less than one step.
C24_CursorInvariant ==
    /\ 0 <= ds.resample_pos /\ ds.resample_pos < ds.source_rate
    /\ ds.source_rate # TARGET_RATE
           => ds.resample_pos = Len(Outputs) * ds.source_rate - FramesFed * TARGET_RATE

\* A feed of one frame has found the cursor beyond its data and produced
\* nothing.
C24_Witness ==
    /\ ds.source_rate = 44100 /\ ds.source_channels = 1
    /\ cb_count = 2 /\ FramesFed = 2 /\ Len(Outputs) = 1 /\ ds.resample_pos > 0

\* The channel sums of the frames fed, one value per frame, and what a
\* one-channel Downsampler of the same rate pushes for a given mono signal.
ChannelSums == [f \in 1..FramesFed |-> ChanSum(fed_in, ds.source_channels, f - 1, 0)]
MonoFeed(mono) == feed(Downsampler_new(ds.source_rate, 1), mono)
MonoOutputs(mono) == Flatten(MonoFeed(mono).chunks) \o MonoFeed(mono).ds.out_buf
MixedFirstOutputs == MonoOutputs(MonoMix(fed_in, ds.source_channels, FramesFed))

C26_Conversions ==
    /\ fn = "u8_to_i16"
           => /\ ret.i16 = (arg.u8 - 128) * 256
              /\ ret.i16 \in I16_MIN..I16_MAX
              /\ arg.u8 = 128 => ret.i16 = 0
              /\ arg.u8 = 0 => ret.i16 = -32768
              /\ arg.u8 = 255 => ret.i16 = 32512
    /\ fn = "i32_to_i16"
           => /\ ret.i16 \in I16_MIN..I16_MAX
              /\ (arg.i32 - ret.i16 * 65536) \in 0..65535
              /\ arg.i32 = 0 => ret.i16 = 0
              /\ arg.i32 = I32_MAX => ret.i16 = I16_MAX
              /\ arg.i32 = I32_MIN => ret.i16 = I16_MIN
    /\ fn = "f32_to_i16"
           => /\ ret.i16 \in I16_MIN..I16_MAX
              /\ arg.f32 = F32(0) => ret.i16 = 0
              /\ arg.f32 = F32(F32_ONE) => ret.i16 = 32767
              /\ arg.f32 = F32(-F32_ONE) => ret.i16 = -32767
              /\ arg.f32 = F32(2 * F32_ONE) => ret.i16 = 32767
              /\ (arg.f32.kind = "finite" /\ arg.f32.num >= F32_ONE) => ret.i16 = 32767
              /\ (arg.f32.kind = "finite" /\ arg.f32.num <= -F32_ONE) => ret.i16 = -32767
              /\ (arg.f32.kind = "finite" /\ arg.f32.num \in (-F32_ONE)..F32_ONE)
                     => ret.i16 = TruncDiv(arg.f32.num * 32767, F32_ONE)

\* A negative 32-bit sample that is not a multiple of 2^16 has been shifted.
C26_Witness == fn = "i32_to_i16" /\ arg.i32 = -1 /\ ret.i16 = -1

\* The card a device is on is a USB card: its id is one of the USB card ids.
OnUsbCard(d, host) ==
    \E u \in 1..Len(host.usb_card_names) : host.usb_card_names[u] = d.card

\* C27: when an eligible hardware device on a USB card is enumerated, the
\* device selected is such a device; otherwise an eligible hardware device
\* if there is one; the default device of the platform only when no eligible
\* hardware device is enumerated; an error only when there is no default
\* device either; an endpoint with a skipped prefix is never selected from
\* the enumeration.
C27_DeviceSelectionPolicy ==
    fn = "default_input_device" =>
        LET host == arg.host
            elig == {i \in 1..Len(host.devices) :
                        host.enumerable /\ Considered(host.devices[i])}
            usb  == {i \in elig : OnUsbCard(host.devices[i], host)}
        IN  /\ usb # {} => /\ ret.kind = "Ok" /\ ret.path = "enumerated"
                           /\ \E i \in usb : ret.device = host.devices[i]
            /\ (usb = {} /\ elig # {})
                   => /\ ret.kind = "Ok" /\ ret.path = "enumerated"
                      /\ \E i \in elig : ret.device = host.devices[i]
            /\ ret.path = "fallback" => elig = {}
            /\ ret.kind = "Err" => (elig = {} /\ host.default = <<>>)
            /\ (elig = {} /\ host.default # <<>>)
                   => (ret.kind = "Ok" /\ ret.device = Head(host.default))
            /\ ret.path = "enumerated"
                   => ~\E p \in skip_prefixes : starts_with(to_lowercase(ret.device.name), p)

\* C28: the default configuration of the device is used as it is; without
\* one, the configuration chosen is the first of the enumeration among those
\* of the best format (I16, then F32, then I32, then U8), at 16000 Hz if its
\* range contains 16000 and at its maximum rate otherwise; an enumeration
\* that fails or is empty is an error.
C28_FormatNegotiation ==
    fn = "pick_input_config" =>
        LET dev == arg.device
            cs == dev.supported_input_configs
            P(i) == format_priority(cs[i].fmt)
        IN  /\ dev.default_input_config # <<>>
                   => ret = [kind |-> "Ok", config |-> Head(dev.default_input_config)]
            /\ (dev.default_input_config = <<>> /\ dev.supported_ok /\ cs # <<>>)
                   => \E i \in 1..Len(cs) :
                          /\ \A j \in 1..Len(cs) : P(j) >= P(i)
                          /\ \A j \in 1..(i - 1) : P(j) > P(i)
                          /\ ret.kind = "Ok"
                          /\ ret.config.fmt = cs[i].fmt
                          /\ ret.config.channels = cs[i].channels
                          /\ ret.config.sample_rate =
                                 IF cs[i].min <= 16000 /\ 16000 <= cs[i].max
                                 THEN 16000 ELSE cs[i].max
            /\ (dev.default_input_config = <<>> /\ (~dev.supported_ok \/ cs = <<>>))
                   => ret.kind = "Err"

\* No default configuration; the enumeration yields an F32 range and then
\* an I16 range that does not contain the target rate: I16 at its maximum
\* rate is chosen.
C28_Witness ==
    /\ fn = "pick_input_config"
    /\ arg.device.default_input_config = <<>> /\ arg.device.supported_ok
    /\ Len(arg.device.supported_input_configs) = 2
    /\ arg.device.supported_input_configs[1].fmt = "F32"
    /\ arg.device.supported_input_configs[2].fmt = "I16"
    /\ arg.device.supported_input_configs[2].min = 44100
    /\ ret.kind = "Ok" /\ ret.config.fmt = "I16" /\ ret.config.sample_rate = 48000

\* C29: the closure of the chunk channel while Recording ends the collection
\* without an edge being taken; the flag is then cleared and the cycle goes
\* on with what was collected, to transcription when the buffer is not empty
\* and to Idle when it is; run does not end, and a Stop edge received in
\* Idle afterwards changes nothing.
C29_ChannelClosedEarlyStop ==
    /\ [][(pc = "collect" /\ pc' = "stop" /\ UNCHANGED input_q)
            => (Closed(cur) /\ chan[cur] = <<>> /\ ~stopSeen'
                /\ UNCHANGED <<state, all_samples, startCalls>>)]_vars
    /\ []((pc \in {"drain", "transcribe", "inject"} /\ ~stopSeen)
            => (~flag[cur] /\ Closed(cur)))
    /\ [][(pc = "drain" /\ pc' # "drain" /\ ~stopSeen)
            => IF all_samples = <<>>
               THEN pc' = "idle" /\ state' = "Idle" /\ transcribeCalls' = 0
               ELSE pc' = "transcribe" /\ all_samples' = all_samples]_vars
    /\ [](pc # "exited")
    /\ [][(pc = "idle" /\ drained /\ ~stopSeen /\ Consumed /\ Head(input_q).sig = "Stop")
            => (pc' = "idle"
                /\ UNCHANGED <<state, capVars, startCalls, transcribeCalls, injectCalls>>)]_vars

\* The capture thread of the session has failed, the collection has ended
\* on the closed channel without a Stop edge, the machine is Idle, and the
\* Stop edge of the key release is now at the head of the queue.
C29_Witness ==
    /\ pc = "idle" /\ cur = 1 /\ th[1] \in ThreadErrors
    /\ drained /\ ~stopSeen /\ ~flag[1] /\ transcribeCalls = 0
    /\ input_q # <<>> /\ Head(input_q).sig = "Stop"

\* C30: the wait for the transcription result is bounded by the configured
\* timeout: the response loop never waits longer than `deadline`, whatever
\* the server sends.
C30_WaitBoundedByTimeout == total_wait <= deadline

\* The combination is held as HookState sees it; a signal has just been sent.
ComboHeld == hotkey.modifiers \subseteq held_modifiers /\ trigger_held
Sent(sig) ==
    /\ Len(input_q') = Len(input_q) + 1
    /\ SubSeq(input_q', 1, Len(input_q)) = input_q
    /\ input_q'[Len(input_q')].sig = sig
NothingSent == input_q' = input_q

\* C31 (as claimed): Start is emitted exactly when the combination becomes
\* held while not recording, so after every key event the hook is recording
\* whenever the combination is held.
C31_StartWheneverComboHeld == ComboHeld => hk_recording

\* C31 (amended): Start is emitted exactly by a press after which the
\* combination is held, while not recording and not within DEBOUNCE_MS of
\* the previous Start; a press within that time, or one that leaves a part
\* of the combination unheld, emits nothing; while recording, the release
\* that leaves the trigger or a required modifier unheld emits exactly one
\* Stop and ends the recording; a release while not recording emits nothing.
C31_EdgeDetection ==
    /\ [][Sent("Start") <=> (~hk_recording /\ ComboHeld' /\ elapsed
                               /\ input_q' # input_q)]_vars
    /\ [][(~ComboHeld /\ ComboHeld' /\ ~hk_recording)
            => IF elapsed THEN Sent("Start") /\ hk_recording'
                          ELSE NothingSent /\ ~hk_recording']_vars
    /\ [][(~ComboHeld' /\ ~hk_recording) => (NothingSent /\ ~hk_recording')]_vars
    /\ [][(hk_recording /\ ~ComboHeld') => (Sent("Stop") /\ ~hk_recording')]_vars
    /\ [][Sent("Stop") => (hk_recording /\ ComboHeld /\ ~ComboHeld')]_vars
    /\ [](hk_recording => ComboHeld)

\* Ctrl+Shift+Space has started a recording, the release of a modifier has
\* stopped it while the trigger key is still held, and the rest of the
\* combination has been released and pressed again within the debounce time.
C31_Witness ==
    /\ hotkey.modifiers = {"Ctrl", "Shift"}
    /\ Len(input_q) = 2 /\ input_q[1].sig = "Start" /\ input_q[2].sig = "Stop"
    /\ ComboHeld /\ ~hk_recording /\ ~elapsed

\* The signals the hook has sent, in order (nothing receives them when the
\* hook runs alone), and how many of them are the given signal.
SentCount(sig) == Cardinality({i \in 1..Len(input_q) : input_q[i].sig = sig})

\* C33: the hook emits strictly alternating edges beginning with Start: the
\* number of Starts sent minus the number of Stops sent is 1 while
\* HookState.recording is true and 0 while it is false, every signal at an
\* odd position is a Start and every signal at an even position a Stop; a
\* press while recording (auto-repeat) or within the debounce time sends
\* nothing and starts no recording, and a release while not recording sends
\* nothing.
C33_AlternatingEdges ==
    /\ [](SentCount("Start") - SentCount("Stop") = IF hk_recording THEN 1 ELSE 0)
    /\ [](\A i \in 1..Len(input_q) :
            input_q[i].sig = IF i % 2 = 1 THEN "Start" ELSE "Stop")
    /\ [][(hk_recording /\ hk_recording') => NothingSent]_vars
    /\ [][(~hk_recording /\ ~elapsed) => (NothingSent /\ ~hk_recording')]_vars
    /\ [][(~hk_recording /\ ~hk_recording') => NothingSent]_vars

\* A second recording has been started after a complete Start/Stop pair and
\* the debounce time has passed with the combination still held, so the next
\* press event is an auto-repeat.
C33_Witness ==
    /\ Len(input_q) = 3 /\ input_q[3].sig = "Start"
    /\ hk_recording /\ elapsed /\ ComboHeld

\* C34: every path that leaves the collection of a session whose
\* start_capture returned Ok clears the flag of that session before anything
\* else is done: a flag that is still set belongs to the current session,
\* and the machine is then collecting or has just left the loop and is about
\* to execute the store; in Idle, during the final drain, the transcription
\* and the injection no started session has its flag set.
C34_FlagClearedOnLeavingRecording ==
    \A s \in 1..cur :
        (StartCaptureResult(s) = "Ok" /\ flag[s]) => (s = cur /\ pc \in {"collect", "stop"})

\* The signal channel has closed during a recording whose stream is running:
\* the machine is Idle, no Stop edge was taken, and the flag is cleared while
\* the supervising thread has not yet seen it.
C34_Witness ==
    /\ pc \in {"idle", "parked"} /\ input_closed /\ ~stopSeen
    /\ cur = 1 /\ th[1] = "running" /\ ~flag[1] /\ transcribeCalls = 0

\* all_samples of state_recording once it has received the first n chunks
\* sent: each is appended with extend_from_slice.
RecordingBuffer(n) == Flatten(SubSeq(tx_out, 1, n))

\* C35: the buffer handed to transcription, whichever number of the chunks
\* sent it has received, has a length that is a multiple of
\* SAMPLES_PER_CHUNK; once the flag is cleared nothing more is sent and the
\* samples left in the Downsampler (fewer than one chunk) stay there.
C35_BufferWholeChunks ==
    /\ [](\A n \in 0..Len(tx_out) :
            /\ Len(RecordingBuffer(n)) % SAMPLES_PER_CHUNK = 0
            /\ Len(RecordingBuffer(n)) = n * SAMPLES_PER_CHUNK)
    /\ [](Len(ds.out_buf) < SAMPLES_PER_CHUNK)
    /\ [][~running' => (tx_out' = tx_out /\ ds'.out_buf = ds.out_buf)]_vars

\* The recording has stopped after at least one chunk was sent, with samples
\* left in the Downsampler.
C35_Witness ==
    /\ ~running /\ tx_out # <<>> /\ ds.out_buf # <<>>
    /\ Len(RecordingBuffer(Len(tx_out))) = Len(tx_out) * SAMPLES_PER_CHUNK

\* The signal channel is closed and every edge sent on it has been received.
InputGone == input_closed /\ input_q = <<>>

\* C36: when the signal channel is found closed while Recording (the chunk
\* channel being open or holding chunks, so that the collection can only end
\* on the signal channel), the machine clears the flag of the session and
\* returns to Idle with the samples discarded, without invoking the
\* transcription or the injection; the only way from collecting straight to
\* Idle is this one; and from then on the machine stays Idle or parked and
\* starts no capture, transcription or injection.
C36_ClosedChannelWhileRecording ==
    /\ [][(pc = "collect" /\ pc' # "collect" /\ InputGone
            /\ ~(Closed(cur) /\ chan[cur] = <<>>))
            => (/\ pc' = "idle" /\ state' = "Idle"
                /\ ~flag'[cur] /\ all_samples' = <<>> /\ chan'[cur] = <<>>
                /\ UNCHANGED <<transcribeCalls, injectCalls, startCalls>>)]_vars
    /\ [][(pc = "collect" /\ pc' = "idle") => (InputGone /\ ~flag'[cur])]_vars
    /\ [][(InputGone /\ pc \in {"idle", "parked"})
            => (/\ pc' \in {"idle", "parked"} /\ state' = "Idle"
                /\ UNCHANGED <<transcribeCalls, injectCalls, startCalls, all_samples>>)]_vars

\* The channel closed during the first recording after a chunk had been
\* produced: the machine is parked, nothing was transcribed or injected.
C36_Witness ==
    /\ pc = "parked" /\ InputGone /\ ~stopSeen /\ ~drained
    /\ cur = 1 /\ ~flag[1] /\ produced # <<>> /\ all_samples = <<>>
    /\ transcribeCalls = 0 /\ injectCalls = <<>>

\* The sessions whose capture thread exists, and those whose input stream
\* exists (it is built and played by the thread and dropped when the
\* keep-alive loop ends).
Threads == {s \in 1..cur : th[s] \in {"spawned", "running"}}
Streams == {s \in 1..cur : th[s] = "running"}

\* C37: at most one capture input stream and at most one supervising thread
\* exist at any time, across consecutive sessions too: when start_capture
\* has run for a new session, the thread of every earlier session has ended.
C37_AtMostOneStream ==
    /\ Cardinality(Streams) <= 1
    /\ Cardinality(Threads) <= 1
    /\ \A s \in 1..cur : s < cur => th[s] \notin {"spawned", "running"}

\* The audio messages sent so far, and the number of messages of a kind.
AudioSent == SelectSeq(n_sent, LAMBDA m : m.kind = "audio")
SentOfKind(kind) == Cardinality({i \in 1..Len(n_sent) : n_sent[i].kind = kind})

C39_ClipboardRestored ==
    (c_pc = "done" /\ c_original.kind = "text") => clip = c_original

\* C32: the API URL does not depend on the API key: the URL of a
\* configuration is the URL of every configuration that differs from it in
\* the key only; neither the key nor a key= query appears in it; the request
\* that carries the key carries it in the x-goog-api-key header and not in
\* its URL.
C32_UrlIndependentOfKey ==
    /\ fn = "api_url"
           => /\ \A k \in ApiKeys :
                     api_url([arg.config EXCEPT !.api_key = k]) = ret.url
              /\ ~contains(ret.url, arg.config.api_key)
              /\ ~contains(ret.url, <<"k","e","y","=">>)
              /\ starts_with(ret.url, <<"h","t","t","p","s",":","/","/">>)
    /\ fn = "verify_api_key_sync"
           => /\ ~contains(ret.url, arg.api_key)
              /\ ret.headers = {<<API_KEY_HEADER, arg.api_key>>}

\* api_url has been called for a model given with its models/ prefix and a
\* secret key.
C32_Witness ==
    /\ fn = "api_url"
    /\ arg.config.api_key = <<"A","I","z","a","S","y","S","E","C","R","E","T">>
    /\ starts_with(arg.config.model, MODELS_PREFIX)
    /\ Len(ret.url) = Len(API_BASE) + Len(arg.config.model) - Len(MODELS_PREFIX)
                        + Len(GENERATE_CONTENT)

TypeOK ==
    /\ state \in {"Idle", "Recording"}
    /\ pc \in {"idle", "parked", "rec_enter", "collect", "stop", "drain",
               "transcribe", "inject"}
    /\ Len(flag) <= MaxEdges

====
